---- MODULE Spec2Model ----
(***************************************************************************)
(* Model of the seastar future-util combinators (core/loop.hh,             *)
(* core/do_with.hh) on one shard: cooperative, single-threaded tasks.      *)
(*                                                                         *)
(* A future is a record [st, v]:                                           *)
(*   st = "none"     no future / empty future_state                        *)
(*   st = "pending"  not available                                         *)
(*   st = "value"    available, v is the value (0 for future<>)            *)
(*   st = "failed"   available and failed, v identifies the exception      *)
(* The exception of the k-th invocation of a user action is k.             *)
(***************************************************************************)
EXTENDS Integers, Sequences, FiniteSets, TLC

\* ---- bounds of the model --------------------------------------------------
MaxLen == 3        \* longest range handed to the *_for_each combinators
MaxCalls == 3      \* cap on invocations of the action of an unbounded loop
MaxConcurrent == 2 \* largest max_concurrent handed to max_concurrent_for_each
MaxDoWith == 2     \* number of do_with calls
MaxFibers == 2     \* number of concurrent with_lock calls on one lock
MaxClients == 3    \* number of fibers that call the lock directly
MaxOps == 3        \* number of operations that go through one gate
MaxSleepers == 3   \* number of calls of sleep_abortable(dur, as) on one abort source
MaxAborts == 2     \* number of calls of request_abort() on the abort source
MaxPlain == 2      \* number of calls of sleep_abortable(dur)
MaxObjs == 2       \* number of places that can hold a deferred_action
MaxDefers == 2     \* number of calls of defer(func)
MaxControllers == 2 \* number of close_controller / stop_controller objects
MaxNow == 2        \* number of calls of close_now() / stop_now() on one controller
MaxGroups == 2     \* number of scheduling groups
MaxTasks == 3      \* number of tasks and continuations created
MaxEquivLen == 2   \* longest range given to do_for_each and max_concurrent_for_each side by side
MaxInodes == 2     \* number of files and directories that oldpath and newpath can name
MaxNodes == 4      \* number of files and directories in the tree at path, path included
CountBits == 5     \* width of the injector's counters in the model (uint64_t in the code)
MaxSyscalls == 4   \* number of system calls that reach manager::on_syscall
MaxArms == 1       \* number of calls of fail_after / fail_once / cancel
MaxCountArg == 1   \* largest count passed to fail_after, besides the maximum
MaxHowLong == 2    \* largest how_long passed to fail_after, besides the maximum
MaxGuards == 2     \* number of disable_guard objects alive at once
MaxGates == 2      \* number of places that can hold a gate
MaxEntries == 2    \* number of successful calls of enter() on the gates
MaxTmp == 2        \* number of calls of tmp_file::do_with / tmp_dir::do_with
MaxLoggers == 3    \* number of places that can hold a logger object







\* ---- futures ----------------------------------------------------------------
NoFuture == [st |-> "none", v |-> 0]
Pending == [st |-> "pending", v |-> 0]
Value(x) == [st |-> "value", v |-> x]
Failed(e) == [st |-> "failed", v |-> e]

available(f) == f.st \in {"value", "failed"}
failed(f) == f.st = "failed"

\* stop_iteration is a bool_class: no = 0, yes = 1
stop_iteration_no == 0
stop_iteration_yes == 1

\* ---- what one invocation of a user action can do -----------------------------
\* "ready": returns an available future holding a value
\* "failed": returns an available failed future
\* "throw": throws synchronously
\* "pending": returns a future that is not available yet
Outcomes == {"ready", "failed", "throw", "pending"}

\* futurize_invoke(action): a synchronous throw becomes a failed future.
\* k is the number of the invocation, val the value of a ready result.
futurize_invoke(o, k, val) ==
    CASE o = "ready" -> Value(val)
      [] o = "failed" -> Failed(k)
      [] o = "throw" -> Failed(k)
      [] o = "pending" -> Pending

\* ---- state of the loop combinator under test ----------------------------------
VARIABLES
    kind,      \* which combinator was called: "do_for_each", "repeat", ...
    len,       \* do_for_each: length of the range [begin, end); elements 1..len
    begin,     \* do_for_each: the iterator _begin, index of the next element
    pc,        \* "call": inside the initial call; "run": inside run_and_dispose;
               \* "idle": the shard runs something else
    frame,     \* the continuation frame: "none", "waiting" (callback of a pending
               \* future), "scheduled" (in the ready queue), "running", "deleted"
    state,     \* the frame's _state (continuation_base::_state)
    promise,   \* the future returned to the caller (frame's _promise / _pr)
    fut,       \* number of the invocation whose pending future the frame awaits, or 0
    ncalls,    \* number of invocations of the action so far
    nrun,      \* number of task runs of the frame so far (0: the initial call)
    log,       \* history of events, see the Ev* operators
    preempt,   \* preempt[k]: what need_preempt() returns once invocation k has returned
    nset,      \* history: how many times the frame's result promise was resolved
    ndel       \* history: how many times the frame was destroyed

loopVars == <<kind, len, begin, pc, frame, state, promise, fut, ncalls, nrun, log, preempt,
              nset, ndel>>

\* ---- additional state of parallel_for_each -----------------------------------------
VARIABLES
    futs,       \* futs[k]: the future returned by invocation k
    incomplete, \* parallel_for_each_state::_incomplete, as invocation numbers
    ex          \* parallel_for_each_state::_ex, 0 when null

pfeVars == <<futs, incomplete, ex>>

\* ---- state of max_concurrent_for_each ------------------------------------------------
VARIABLES
    s_end,      \* length of the range: state::end, elements 1..s_end
    s_begin,    \* state::begin, index of the next element
    s_max,      \* state::max_concurrent
    sem,        \* state::sem, the units the semaphore has available
    waiter,     \* units the waiter queued on state::sem asks for, 0 without waiter
    s_err,      \* state::err, 0 when null
    drv,        \* where the chain do_until(...).then(...).then(...) stands
    ctx,        \* what runs the chain: "call" (the caller), "task" (the frame of
                \* do_until), "idle" (nothing: it is suspended or scheduled)
    mfuts,      \* mfuts[k]: the future returned by the k-th invocation of func
    handlers,   \* handlers[k]: the then_wrapped continuation of invocation k:
                \* "attached", "scheduled" or "done"
    mpromise,   \* the future max_concurrent_for_each returns
    holder,     \* the do_with_state that holds state: "alive" or "destroyed"
    dwstate,    \* do_with_state::_state
    mlog        \* history: the invocations of func and what the continuations saw

mcfeVars == <<s_end, s_begin, s_max, sem, waiter, s_err, drv, ctx, mfuts, handlers,
              mpromise, holder, dwstate, mlog>>

\* ---- state of the do_with calls -------------------------------------------------------
VARIABLES
    dw_task,    \* dw_task[c]: the do_with_state of call c, which holds the values:
                \* "none", "waiting", "scheduled" or "deleted"
    dw_fut,     \* dw_fut[c]: the future returned by f
    dw_threw,   \* dw_threw[c]: f threw instead of returning a future
    dw_state,   \* dw_state[c]: do_with_state::_state
    dw_ret,     \* dw_ret[c]: the future returned by do_with
    dw_ndel     \* dw_ndel[c]: how many times the do_with_state was destroyed

dwVars == <<dw_task, dw_fut, dw_threw, dw_state, dw_ret, dw_ndel>>

\* ---- state of a lock and of the with_lock calls on it ----------------------------------
VARIABLES
    readers,    \* shared_mutex::_readers
    writer,     \* shared_mutex::_writer
    waiters,    \* shared_mutex::_waiters: records [fiber, for_write]
    mode,       \* mode[i]: call i locks for "read" or for "write"
    fpc,        \* fpc[i]: where the chain lock().then(func).then_wrapped(...) stands
    lockfut,    \* lockfut[i]: the future returned by lock.lock()
    funcfut,    \* funcfut[i]: the future of func, NoFuture while it was not invoked
    outcome,    \* outcome[i]: how the invocation of func ended, "none" before it
    result,     \* result[i]: the future returned by with_lock
    nunlock     \* nunlock[i]: number of calls of lock.unlock() made by call i

wlVars == <<readers, writer, waiters, mode, fpc, lockfut, funcfut, outcome, result, nunlock>>

\* the lock alone, and the chains of with_lock alone
lockVars == <<readers, writer, waiters>>
chainVars == <<mode, fpc, lockfut, funcfut, outcome, result, nunlock>>

\* ---- state of the fibers that call the lock directly -----------------------------------
VARIABLES
    cpc,        \* cpc[i]: "idle", "wait_read", "wait_write", "hold_read" or "hold_write"
    ret         \* the last call made on the lock: [op, fiber, res]

clientVars == <<cpc, ret>>

\* ---- state of a timer and of its gate ----------------------------------------------------
VARIABLES
    g_count,    \* gate::_count
    g_stopped,  \* gate::_stopped: NoFuture before close(), then the future close() returned
    g_nset,     \* how many times _stopped was resolved
    t_armed,    \* timer::_armed
    gop,        \* gop[k]: "none", "entered", "left", "running", "leave_sched", "done"
                \* or "closed" (turned away by the closed gate)
    gfut,       \* gfut[k]: the future of func under with_gate, or the gate-closed failure
    grun        \* grun[k]: func was invoked

gateVars == <<g_count, g_stopped, g_nset, t_armed, gop, gfut, grun>>

\* ---- state of an abort source and of the sleepers subscribed to it -----------------------
VARIABLES
    as_aborted, \* the abort source was fired
    as_subs,    \* the live subscriptions, in registration order (one per sleeper)
    ablog,      \* the sleepers whose subscription callback was invoked, in order
    nabort,     \* number of calls of request_abort()
    reg,        \* the sleepers in the order in which they called subscribe() with success
    sl_pc,      \* sl_pc[s]: "none", "sleeping", "finally_sched" or "finished"
    sl_entry,   \* sl_entry[s]: "none", or the source at the call: "live" or "aborted"
    tmr_armed,  \* tmr_armed[s]: sleeper::tmr is armed
    done,       \* done[s]: the future of sleeper::done, which sleep_abortable returns
    nres,       \* nres[s]: number of times sleeper::done was resolved
    ncb,        \* ncb[s]: number of runs of the callback of sleeper::tmr
    narm        \* narm[s]: number of times sleeper::tmr was armed

sleepVars == <<as_aborted, as_subs, ablog, nabort, reg, sl_pc, sl_entry, tmr_armed, done,
               nres, ncb, narm>>

\* ---- state of the calls of sleep_abortable(dur) ----------------------------------------------
VARIABLES
    ps_pc,      \* ps_pc[w]: "none", "wait", "then_sched", "handle_sched" or "done"
    ps_f0,      \* ps_f0[w]: the future of engine().wait_for_stop(dur)
    ps_f1,      \* ps_f1[w]: the future returned by then()
    ps_res      \* ps_res[w]: the future returned by sleep_abortable(dur)

plainVars == <<ps_pc, ps_f0, ps_f1, ps_res>>

\* ---- state of the deferred actions ------------------------------------------------------------
VARIABLES
    d_obj,      \* d_obj[o]: the deferred_action at place o: [live, func, cancelled],
                \* func being the function in _func (0 for none), also when moved from
    d_ninv,     \* d_ninv[f]: number of invocations of function f
    d_holder,   \* d_holder[f]: the place of the action made by defer(f), 0 before it
    d_ended,    \* d_ended[f]: the action made by defer(f) was destroyed
    d_usercan,  \* d_usercan[f]: cancel() was called on the action made by defer(f)
    d_nf,       \* number of calls of defer made
    d_self      \* history: the last operation assigned an object to itself

deferVars == <<d_obj, d_ninv, d_holder, d_ended, d_usercan, d_nf, d_self>>

\* ---- state of the close and stop controllers ---------------------------------------------------
VARIABLES
    cc_pc,      \* cc_pc[c]: "none", "live", "wait_now", "wait_dtor", "destroyed",
                \* "aborted" (assert failed) or "terminated" (get() threw in noexcept)
    cc_kind,    \* cc_kind[c]: "close" for close_controller, "stop" for stop_controller
    cc_closed,  \* cc_closed[c]: close_controller::_closed / stop_controller::_stopped
    cc_fut,     \* cc_fut[c]: the future returned by obj.close() / obj.stop()
    cc_ncalls,  \* cc_ncalls[c]: number of calls of obj.close() / obj.stop() by controller c
    cc_by,      \* cc_by[c]: who made the call: "none", "now" or "dtor"
    cc_nnow     \* cc_nnow[c]: number of calls of close_now() / stop_now()

closeVars == <<cc_pc, cc_kind, cc_closed, cc_fut, cc_ncalls, cc_by, cc_nnow>>

\* ---- state of the tasks and their scheduling groups ---------------------------------------------
VARIABLES
    sg_cur,     \* current_scheduling_group()
    sg_tq,      \* sg_tq[g]: the ready queue of group g, a sequence of tasks
    sg_pc,      \* sg_pc[t]: "none", "waiting" (on a pending future), "queued" or "done"
    sg_tag,     \* sg_tag[t]: task::_sg
    sg_explicit,\* sg_explicit[t]: the group was passed to the constructor
    sg_born,    \* sg_born[t]: the group that was current when t was constructed
    sg_res,     \* sg_res[t]: the group that was current when the future of t resolved
    sg_ran      \* sg_ran[t]: the group that was current when t ran

schedVars == <<sg_cur, sg_tq, sg_pc, sg_tag, sg_explicit, sg_born, sg_res, sg_ran>>

\* ---- state of one call of rename_file_ext --------------------------------------------------------
VARIABLES
    rn_old,     \* the inode that oldpath names, 0 when oldpath does not exist
    rn_new,     \* the inode that newpath names, 0 when newpath does not exist
    rn_type,    \* rn_type[i]: "regular" or "directory"
    rn_flag,    \* the allow_overwrite argument
    rn_pc,      \* "none", "call", "then" (stat_files resolved) or "done"
    rn_sd1,     \* stat_data of oldpath, as seen by the continuation
    rn_sd2,     \* stat_data of newpath
    rn_res,     \* the future returned by rename_file_ext
    rn_old0,    \* history: rn_old at the call
    rn_new0     \* history: rn_new at the call

renameVars == <<rn_old, rn_new, rn_type, rn_flag, rn_pc, rn_sd1, rn_sd2, rn_res, rn_old0, rn_new0>>

\* ---- state of one call of recursive_remove_directory ---------------------------------------------
VARIABLES
    rr_parent,  \* rr_parent[n]: the directory that holds n; 0 for node 1, which is path
    rr_isdir,   \* rr_isdir[n]: n is a directory
    rr_exists,  \* the nodes that are on disk
    rr_wq,      \* work_queue: a sequence of work_entry records [n, listed]
    rr_pc,      \* "none", "call", "loop" (inside do_until), "close" or "done"
    rr_res,     \* the future returned by recursive_remove_directory
    rr_log,     \* history of the file operations: [op, n, ok]
    rr_exists0  \* history: the nodes on disk at the call

removeVars == <<rr_parent, rr_isdir, rr_exists, rr_wq, rr_pc, rr_res, rr_log, rr_exists0>>

\* ---- state of one injector and of the manager it is registered with ----------------------------
VARIABLES
    fi_error,      \* injector::_error
    fi_count,      \* injector::_count
    fi_fail_at,    \* injector::_fail_at
    fi_fail_until, \* injector::_fail_until
    fi_suppressed, \* manager::_suppressed
    fi_nsys,       \* number of system calls made so far
    fi_last,       \* history: the last system call, see SyscallEvent
    fi_hist,       \* history: the system calls since the last call of fail_after or
                   \* cancel, without those that only had a false predicate
    fi_nest,       \* history: the largest number of guards alive at one of them
    fi_arm,        \* history: the last call of fail_after or cancel, see Armed
    fi_narm,       \* history: number of calls of fail_after, fail_once and cancel
    fi_cancel      \* history: the last of these calls was cancel()

injVars == <<fi_error, fi_count, fi_fail_at, fi_fail_until, fi_suppressed, fi_nsys, fi_last, fi_hist, fi_nest, fi_arm, fi_narm, fi_cancel>>

\* ---- state of the gates that are move-constructed and destroyed ---------------------------------
VARIABLES
    mg_gate,    \* mg_gate[g]: the gate at place g: [live, count, stopped], stopped being
                \* "none" (no promise), "pending", "set" or "moved" (a moved-from promise)
    mg_ent,     \* history: mg_ent[g]: entries that entered and have not left, counted
                \* at the gate that has taken them over
    mg_nent,    \* history: number of successful calls of enter()
    mg_dead,    \* the gate whose destructor failed its assertion, 0 when none did
    mg_last     \* history: the last operation, [op, g, h]

mgVars == <<mg_gate, mg_ent, mg_nent, mg_dead, mg_last>>

\* ---- state of the calls of tmp_file::do_with and tmp_dir::do_with -------------------------------
VARIABLES
    tf_kind,    \* tf_kind[t]: call t is on a "file" or on a "dir"
    tf_pc,      \* tf_pc[t]: the step of the chain that runs next: "open", "func",
                \* "close", "remove", "destroy"; then "done", or "aborted" when an
                \* assertion of the destructor failed
    tf_opened,  \* tf_opened[t]: tmp_file::_file holds a file
    tf_path,    \* tf_path[t]: _path is not empty
    tf_fail     \* history: tf_fail[t]: the steps of the chain that failed

tmpVars == <<tf_kind, tf_pc, tf_opened, tf_path, tf_fail>>

\* ---- state of the loggers and of the global logger registry ------------------------------------
VARIABLES
    lg_live,    \* lg_live[l]: a logger object is alive at place l
    lg_name,    \* lg_name[l]: its _name ("" for an empty string and where no object is)
    lg_moved,   \* history: lg_moved[l]: the object at l was the source of a move
    loggers,    \* logger_registry::_loggers: a function from names to places
    lg_last     \* history: the last operation

logVars == <<lg_live, lg_name, lg_moved, loggers, lg_last>>

\* the variables that the deferred actions leave alone
nonDeferVars == <<loopVars, pfeVars, mcfeVars, dwVars, wlVars, clientVars, gateVars, sleepVars, plainVars, closeVars, schedVars, renameVars, removeVars, injVars, mgVars, tmpVars, logVars>>

\* the variables that the timer and its gate leave alone
nonGateVars == <<loopVars, pfeVars, mcfeVars, dwVars, wlVars, clientVars, sleepVars, plainVars, deferVars, closeVars, schedVars, renameVars, removeVars, injVars, mgVars, tmpVars, logVars>>

\* the variables that the abort source and its sleepers leave alone
nonSleepVars == <<loopVars, pfeVars, mcfeVars, dwVars, wlVars, clientVars, gateVars, plainVars, deferVars, closeVars, schedVars, renameVars, removeVars, injVars, mgVars, tmpVars, logVars>>

\* the variables that the calls of sleep_abortable(dur) leave alone
nonPlainVars == <<loopVars, pfeVars, mcfeVars, dwVars, wlVars, clientVars, gateVars, sleepVars, deferVars, closeVars, schedVars, renameVars, removeVars, injVars, mgVars, tmpVars, logVars>>

\* the variables that the direct calls on the lock leave alone
nonMutexVars == <<loopVars, pfeVars, mcfeVars, dwVars, chainVars, gateVars, sleepVars, plainVars, deferVars, closeVars, schedVars, renameVars, removeVars, injVars, mgVars, tmpVars, logVars>>

\* the variables that the loops with one outstanding future leave alone
nonLoopVars == <<pfeVars, mcfeVars, dwVars, wlVars, clientVars, gateVars, sleepVars, plainVars, deferVars, closeVars, schedVars, renameVars, removeVars, injVars, mgVars, tmpVars, logVars>>

\* the variables that parallel_for_each leaves alone
nonPfeVars == <<mcfeVars, dwVars, wlVars, clientVars, gateVars, sleepVars, plainVars, deferVars, closeVars, schedVars, renameVars, removeVars, injVars, mgVars, tmpVars, logVars>>

\* the variables that max_concurrent_for_each leaves alone
nonMcfeVars == <<loopVars, pfeVars, dwVars, wlVars, clientVars, gateVars, sleepVars, plainVars, deferVars, closeVars, schedVars, renameVars, removeVars, injVars, mgVars, tmpVars, logVars>>

\* the variables that do_with leaves alone
nonDwVars == <<loopVars, pfeVars, mcfeVars, wlVars, clientVars, gateVars, sleepVars, plainVars, deferVars, closeVars, schedVars, renameVars, removeVars, injVars, mgVars, tmpVars, logVars>>

\* the variables that with_lock and the lock leave alone
nonWlVars == <<loopVars, pfeVars, mcfeVars, dwVars, clientVars, gateVars, sleepVars, plainVars, deferVars, closeVars, schedVars, renameVars, removeVars, injVars, mgVars, tmpVars, logVars>>

\* the variables that the close and stop controllers leave alone
nonCloseVars == <<loopVars, pfeVars, mcfeVars, dwVars, wlVars, clientVars, gateVars, sleepVars, plainVars, deferVars, schedVars, renameVars, removeVars, injVars, mgVars, tmpVars, logVars>>

\* the variables that the tasks and their scheduling groups leave alone
nonSchedVars == <<loopVars, pfeVars, mcfeVars, dwVars, wlVars, clientVars, gateVars, sleepVars, plainVars, deferVars, closeVars, renameVars, removeVars, injVars, mgVars, tmpVars, logVars>>

\* the variables that rename_file_ext leaves alone
nonRenameVars == <<loopVars, pfeVars, mcfeVars, dwVars, wlVars, clientVars, gateVars, sleepVars, plainVars, deferVars, closeVars, schedVars, removeVars, injVars, mgVars, tmpVars, logVars>>

\* the variables that recursive_remove_directory leaves alone
nonRemoveVars == <<loopVars, pfeVars, mcfeVars, dwVars, wlVars, clientVars, gateVars, sleepVars, plainVars, deferVars, closeVars, schedVars, renameVars, injVars, mgVars, tmpVars, logVars>>

\* the variables that the filesystem error injector leaves alone
nonInjVars == <<loopVars, pfeVars, mcfeVars, dwVars, wlVars, clientVars, gateVars, sleepVars, plainVars, deferVars, closeVars, schedVars, renameVars, removeVars, mgVars, tmpVars, logVars>>

\* the variables that the gates which are moved leave alone
nonMgVars == <<loopVars, pfeVars, mcfeVars, dwVars, wlVars, clientVars, gateVars, sleepVars, plainVars, deferVars, closeVars, schedVars, renameVars, removeVars, injVars, tmpVars, logVars>>

\* the variables that the temporary files and directories leave alone
nonTmpVars == <<loopVars, pfeVars, mcfeVars, dwVars, wlVars, clientVars, gateVars, sleepVars, plainVars, deferVars, closeVars, schedVars, renameVars, removeVars, injVars, mgVars, logVars>>

\* the variables that the loggers leave alone
nonLogVars == <<loopVars, pfeVars, mcfeVars, dwVars, wlVars, clientVars, gateVars, sleepVars, plainVars, deferVars, closeVars, schedVars, renameVars, removeVars, injVars, mgVars, tmpVars>>

vars == <<loopVars, pfeVars, mcfeVars, dwVars, wlVars, clientVars, gateVars, sleepVars, plainVars, deferVars, closeVars, schedVars, renameVars, removeVars, injVars, mgVars, tmpVars, logVars>>

\* ---- events of the history ------------------------------------------------------
\* the action is invoked for the k-th time, on element el (0 when there is none),
\* during task run r; ready = 1 when the future it returns is available
EvInvoke(k, el, f, r) ==
    [ev |-> "invoke", k |-> k, el |-> el, res |-> 0, val |-> 0, run |-> r,
     ready |-> IF available(f) THEN 1 ELSE 0]
\* the future of invocation k resolves to f: res = 1 with value val, res = 0 failure
EvResolve(k, f, r) ==
    [ev |-> "resolve", k |-> k, el |-> 0, res |-> IF failed(f) THEN 0 ELSE 1,
     val |-> IF failed(f) THEN 0 ELSE f.v, run |-> r, ready |-> 0]
\* stop_cond is evaluated and returns res (1 true, 0 false)
EvStop(b, r) ==
    [ev |-> "stop", k |-> 0, el |-> 0, res |-> IF b THEN 1 ELSE 0, val |-> 0, run |-> r,
     ready |-> 0]

\* the events that invocation k, returning the future f, adds to the history
InvokeEvents(f, k, el, r) ==
    IF available(f) THEN <<EvInvoke(k, el, f, r), EvResolve(k, f, r)>>
    ELSE <<EvInvoke(k, el, f, r)>>

LoopTypeOK ==
    /\ kind \in {"none", "do_for_each", "repeat", "repeat_until_value", "do_until",
                "parallel_for_each"}
    /\ len \in 0..(MaxLen + 1)
    /\ begin \in 1..(len + 1)
    /\ pc \in {"call", "idle", "run", "terminated"}
    /\ frame \in {"none", "waiting", "scheduled", "running", "deleted"}
    /\ state.st \in {"none", "value", "failed"}
    /\ promise.st \in {"none", "pending", "value", "failed"}
    /\ fut \in 0..ncalls
    /\ ncalls \in Nat
    /\ nrun \in Nat
    /\ preempt \in Seq(BOOLEAN)
    /\ nset \in Nat
    /\ ndel \in Nat

\* no loop is called
IdleLoop ==
    /\ kind = "none"
    /\ len = 0
    /\ begin = 1
    /\ pc = "idle"
    /\ frame = "none"
    /\ state = NoFuture
    /\ promise = NoFuture
    /\ fut = 0
    /\ ncalls = 0
    /\ nrun = 0
    /\ log = <<>>
    /\ preempt = <<>>
    /\ nset = 0
    /\ ndel = 0
    /\ futs = <<>>
    /\ incomplete = <<>>
    /\ ex = 0

\* max_concurrent_for_each is not called
IdleMcfe ==
    /\ s_end = 0
    /\ s_begin = 1
    /\ s_max = 1
    /\ sem = 0
    /\ waiter = 0
    /\ s_err = 0
    /\ drv = "none"
    /\ ctx = "idle"
    /\ mfuts = <<>>
    /\ handlers = <<>>
    /\ mpromise = NoFuture
    /\ holder = "none"
    /\ dwstate = NoFuture
    /\ mlog = <<>>

DoWithCalls == 1..MaxDoWith
Fibers == 1..MaxFibers
Clients == 1..MaxClients

\* do_with is not called
IdleDoWith ==
    /\ dw_task = <<>>
    /\ dw_fut = <<>>
    /\ dw_threw = <<>>
    /\ dw_state = <<>>
    /\ dw_ret = <<>>
    /\ dw_ndel = <<>>

\* there is no lock
IdleWithLock ==
    /\ readers = 0
    /\ writer = FALSE
    /\ waiters = <<>>
    /\ mode = <<>>
    /\ fpc = <<>>
    /\ lockfut = <<>>
    /\ funcfut = <<>>
    /\ outcome = <<>>
    /\ result = <<>>
    /\ nunlock = <<>>

Ops == 1..MaxOps

\* there is no timer
IdleGate ==
    /\ g_count = 0
    /\ g_stopped = NoFuture
    /\ g_nset = 0
    /\ t_armed = FALSE
    /\ gop = <<>>
    /\ gfut = <<>>
    /\ grun = <<>>

Sleepers == 1..MaxSleepers
PlainSleeps == 1..MaxPlain

\* there is no abort source
IdleSleep ==
    /\ as_aborted = FALSE
    /\ as_subs = <<>>
    /\ ablog = <<>>
    /\ nabort = 0
    /\ reg = <<>>
    /\ sl_pc = <<>>
    /\ sl_entry = <<>>
    /\ tmr_armed = <<>>
    /\ done = <<>>
    /\ nres = <<>>
    /\ ncb = <<>>
    /\ narm = <<>>

\* nobody calls sleep_abortable(dur)
IdlePlain ==
    /\ ps_pc = <<>>
    /\ ps_f0 = <<>>
    /\ ps_f1 = <<>>
    /\ ps_res = <<>>

Objs == 1..MaxObjs
Funcs == 1..MaxDefers

\* there is no deferred action
IdleDefer ==
    /\ d_obj = <<>>
    /\ d_ninv = <<>>
    /\ d_holder = <<>>
    /\ d_ended = <<>>
    /\ d_usercan = <<>>
    /\ d_nf = 0
    /\ d_self = FALSE

Controllers == 1..MaxControllers

\* there is no controller
IdleClose ==
    /\ cc_pc = <<>>
    /\ cc_kind = <<>>
    /\ cc_closed = <<>>
    /\ cc_fut = <<>>
    /\ cc_ncalls = <<>>
    /\ cc_by = <<>>
    /\ cc_nnow = <<>>

Groups == 1..MaxGroups
Tasks == 1..MaxTasks

\* there is no task
IdleSched ==
    /\ sg_cur = 0
    /\ sg_tq = <<>>
    /\ sg_pc = <<>>
    /\ sg_tag = <<>>
    /\ sg_explicit = <<>>
    /\ sg_born = <<>>
    /\ sg_res = <<>>
    /\ sg_ran = <<>>

Inodes == 1..MaxInodes

\* rename_file_ext is not called
IdleRename ==
    /\ rn_old = 0
    /\ rn_new = 0
    /\ rn_type = <<>>
    /\ rn_flag = "none"
    /\ rn_pc = "none"
    /\ rn_sd1 = <<>>
    /\ rn_sd2 = <<>>
    /\ rn_res = NoFuture
    /\ rn_old0 = 0
    /\ rn_new0 = 0

Nodes == 1..MaxNodes

\* recursive_remove_directory is not called
IdleRemove ==
    /\ rr_parent = <<>>
    /\ rr_isdir = <<>>
    /\ rr_exists = {}
    /\ rr_wq = <<>>
    /\ rr_pc = "none"
    /\ rr_res = NoFuture
    /\ rr_log = <<>>
    /\ rr_exists0 = {}

\* there is no injector
IdleInject ==
    /\ fi_error = "none"
    /\ fi_count = 0
    /\ fi_fail_at = 0
    /\ fi_fail_until = 0
    /\ fi_suppressed = 0
    /\ fi_nsys = 0
    /\ fi_last = <<>>
    /\ fi_hist = <<>>
    /\ fi_nest = 0
    /\ fi_arm = <<>>
    /\ fi_narm = 0
    /\ fi_cancel = FALSE

Gates == 1..MaxGates

\* there are no gates of that kind
IdleMoveGate ==
    /\ mg_gate = <<>>
    /\ mg_ent = <<>>
    /\ mg_nent = 0
    /\ mg_dead = 0
    /\ mg_last = <<>>

Tmps == 1..MaxTmp

\* no temporary file or directory is made
IdleTmp ==
    /\ tf_kind = <<>>
    /\ tf_pc = <<>>
    /\ tf_opened = <<>>
    /\ tf_path = <<>>
    /\ tf_fail = <<>>

Loggers == 1..MaxLoggers
LoggerNames == {"a", "b"}

\* no logger is made
IdleLog ==
    /\ lg_live = <<>>
    /\ lg_name = <<>>
    /\ lg_moved = <<>>
    /\ loggers = <<>>
    /\ lg_last = <<>>

\* no fiber calls the lock directly
IdleClients ==
    /\ cpc = <<>>
    /\ ret = <<>>

\* ---- do_for_each -------------------------------------------------------------------

InitDoForEach ==
    /\ kind = "do_for_each"
    /\ len \in 0..MaxLen
    /\ begin = 1
    /\ pc = "call"
    /\ frame = "none"
    /\ state = NoFuture
    /\ promise = NoFuture
    /\ fut = 0
    /\ ncalls = 0
    /\ nrun = 0
    /\ log = <<>>
    /\ preempt = <<>>
    /\ nset = 0
    /\ ndel = 0
    /\ futs = <<>>
    /\ incomplete = <<>>
    /\ ex = 0

\* internal::set_callback(f, frame): a pending future keeps the frame as its
\* continuation; an available one moves its state into the frame and schedules it.
SetCallback(f, k) ==
    /\ frame' = IF available(f) THEN "scheduled" ELSE "waiting"
    /\ state' = IF available(f) THEN f ELSE NoFuture
    /\ fut' = IF available(f) THEN 0 ELSE k

\* variant: the failure of an invocation is not looked at
DoForEachFails_Never(f) == FALSE

\* if (f.failed()): the loop ends with the failure of the action
DoForEachFails(f) == failed(f)

\* variant: the loop yields on need_preempt() only and does not wait for a pending future
DoForEachSuspends_IgnoresPending(f, need_preempt) == need_preempt

\* variant: the loop goes on to the next element whatever need_preempt() returns
DoForEachSuspends_IgnoresPreempt(f, need_preempt) == ~available(f)

\* if (!f.available() || need_preempt()): the rest of the loop runs in the frame
DoForEachSuspends(f, need_preempt) == ~available(f) \/ need_preempt

\* One iteration of the loop of do_for_each_impl, called by do_for_each.
DoForEachImpl ==
    /\ kind = "do_for_each"
    /\ pc = "call"
    /\ IF begin = len + 1
       THEN \* return make_ready_future<>()
            /\ promise' = Value(0)
            /\ pc' = "idle"
            /\ UNCHANGED <<begin, frame, state, fut, ncalls, log, preempt, nset, ndel>>
       ELSE \E o \in Outcomes, need_preempt \in BOOLEAN :
            LET k == ncalls + 1
                f == futurize_invoke(o, k, 0)
            IN  /\ begin' = begin + 1
                /\ ncalls' = k
                /\ log' = log \o InvokeEvents(f, k, begin, nrun)
                /\ preempt' = Append(preempt, need_preempt)
                /\ IF DoForEachFails(f)
                   THEN \* return f
                        /\ promise' = f
                        /\ pc' = "idle"
                        /\ UNCHANGED <<frame, state, fut, nset, ndel>>
                   ELSE IF DoForEachSuspends(f, need_preempt)
                   THEN \* new do_for_each_state{..., f}; return s->get_future()
                        /\ SetCallback(f, k)
                        /\ promise' = Pending
                        /\ UNCHANGED <<nset, ndel>>
                        /\ pc' = "idle"
                   ELSE /\ UNCHANGED <<promise, pc, frame, state, fut, nset, ndel>>
    /\ UNCHANGED <<kind, len, nrun>>
    /\ UNCHANGED nonLoopVars

\* variant: the frame is not released when it is handed to the next future
ZisDeletes_Always(released) == TRUE

\* std::unique_ptr<do_for_each_state> zis(this): the frame is deleted when
\* run_and_dispose returns, unless zis.release() was called
ZisDeletes(released) == ~released

\* variant: run_and_dispose looks at need_preempt() first and, as it is set, puts
\* the frame back into the ready queue without invoking the action
DoForEachRun_PreemptFirst ==
    /\ kind = "do_for_each"
    /\ pc = "idle"
    /\ frame = "scheduled"
    /\ nrun <= len
    /\ nrun' = nrun + 1
    /\ UNCHANGED <<kind, len, begin, pc, frame, state, promise, fut, ncalls, log, preempt,
                   nset, ndel>>
    /\ UNCHANGED nonLoopVars

\* do_for_each_state::run_and_dispose, up to the loop.
DoForEachRun ==
    /\ kind = "do_for_each"
    /\ pc = "idle"
    /\ frame = "scheduled"
    /\ nrun' = nrun + 1
    /\ IF failed(state)
       THEN \* _pr.set_urgent_state(std::move(_state)); zis deletes the frame
            /\ promise' = state
            /\ frame' = "deleted"
            /\ nset' = nset + 1
            /\ ndel' = ndel + (IF ZisDeletes(FALSE) THEN 1 ELSE 0)
            /\ pc' = "idle"
       ELSE /\ frame' = "running"
            /\ pc' = "run"
            /\ UNCHANGED <<promise, nset, ndel>>
    /\ UNCHANGED <<kind, len, begin, state, fut, ncalls, log, preempt>>
    /\ UNCHANGED nonLoopVars

\* One iteration of the while loop of do_for_each_state::run_and_dispose.
DoForEachIter ==
    /\ kind = "do_for_each"
    /\ pc = "run"
    /\ IF begin = len + 1
       THEN \* _pr.set_value(); zis deletes the frame
            /\ promise' = Value(0)
            /\ frame' = "deleted"
            /\ nset' = nset + 1
            /\ ndel' = ndel + (IF ZisDeletes(FALSE) THEN 1 ELSE 0)
            /\ pc' = "idle"
            /\ UNCHANGED <<begin, state, fut, ncalls, log, preempt>>
       ELSE \E o \in Outcomes, need_preempt \in BOOLEAN :
            LET k == ncalls + 1
                f == futurize_invoke(o, k, 0)
            IN  /\ begin' = begin + 1
                /\ ncalls' = k
                /\ log' = log \o InvokeEvents(f, k, begin, nrun)
                /\ preempt' = Append(preempt, need_preempt)
                /\ IF DoForEachFails(f)
                   THEN \* f.forward_to(std::move(_pr)); zis deletes the frame
                        /\ promise' = f
                        /\ frame' = "deleted"
                        /\ nset' = nset + 1
                        /\ ndel' = ndel + (IF ZisDeletes(FALSE) THEN 1 ELSE 0)
                        /\ pc' = "idle"
                        /\ UNCHANGED <<state, fut>>
                   ELSE IF DoForEachSuspends(f, need_preempt)
                   THEN \* _state = {}; set_callback(f, this); zis.release()
                        /\ SetCallback(f, k)
                        /\ pc' = "idle"
                        /\ ndel' = ndel + (IF ZisDeletes(TRUE) THEN 1 ELSE 0)
                        /\ UNCHANGED <<promise, nset>>
                   ELSE UNCHANGED <<promise, pc, frame, state, fut, nset, ndel>>
    /\ UNCHANGED <<kind, len, nrun>>
    /\ UNCHANGED nonLoopVars

\* the values a future returned by the action of a loop can hold
ResultValues(name) ==
    CASE name = "repeat" -> {0, 1}
      [] name = "repeat_until_value" -> {0, 1, 2}
      [] OTHER -> {0}

\* The pending future the frame waits for is resolved by its producer: the state
\* moves into the frame and the frame is scheduled.
ResolveActionFuture ==
    /\ kind # "parallel_for_each"
    /\ pc = "idle"
    /\ frame = "waiting"
    /\ fut # 0
    /\ \E ok \in BOOLEAN, val \in ResultValues(kind) :
        LET f == IF ok THEN Value(val) ELSE Failed(fut)
        IN  /\ state' = f
            /\ log' = Append(log, EvResolve(fut, f, nrun))
    /\ frame' = "scheduled"
    /\ fut' = 0
    /\ UNCHANGED <<kind, len, begin, pc, promise, ncalls, nrun, preempt, nset, ndel>>
    /\ UNCHANGED nonLoopVars

\* ---- repeat ------------------------------------------------------------------------

\* the state before a loop without a range is called
InitNoRange(name) ==
    /\ kind = name
    /\ len = 0
    /\ begin = 1
    /\ pc = "call"
    /\ frame = "none"
    /\ state = NoFuture
    /\ promise = NoFuture
    /\ fut = 0
    /\ ncalls = 0
    /\ nrun = 0
    /\ log = <<>>
    /\ preempt = <<>>
    /\ nset = 0
    /\ ndel = 0
    /\ futs = <<>>
    /\ incomplete = <<>>
    /\ ex = 0

InitRepeat == InitNoRange("repeat")

\* variant: stop_iteration::yes is not honoured
RepeatStops_Never(v) == FALSE

\* if (f.get0() == stop_iteration::yes): the action asks the loop to stop
RepeatStops(v) == v = stop_iteration_yes

\* One iteration of the for (;;) loop of repeat(action).
Repeat ==
    /\ kind = "repeat"
    /\ pc = "call"
    /\ ncalls < MaxCalls
    /\ \E o \in Outcomes, val \in {stop_iteration_no, stop_iteration_yes}, need_preempt \in BOOLEAN :
        LET k == ncalls + 1
            f == futurize_invoke(o, k, val)
        IN  /\ ncalls' = k
            /\ log' = log \o InvokeEvents(f, k, 0, nrun)
            /\ preempt' = Append(preempt, need_preempt)
            /\ IF ~available(f) \/ failed(f) \/ need_preempt
               THEN \* new repeater; set_callback(f, repeater); return its future
                    /\ SetCallback(f, k)
                    /\ promise' = Pending
                    /\ UNCHANGED <<nset, ndel>>
                    /\ pc' = "idle"
               ELSE IF RepeatStops(f.v)
               THEN \* return make_ready_future<>()
                    /\ promise' = Value(0)
                    /\ pc' = "idle"
                    /\ UNCHANGED <<frame, state, fut, nset, ndel>>
               ELSE UNCHANGED <<promise, pc, frame, state, fut, nset, ndel>>
    /\ UNCHANGED <<kind, len, begin, nrun>>
    /\ UNCHANGED nonLoopVars

\* repeater::run_and_dispose, up to the loop.
RepeaterRun ==
    /\ kind = "repeat"
    /\ pc = "idle"
    /\ frame = "scheduled"
    /\ nrun' = nrun + 1
    /\ IF failed(state)
       THEN \* _promise.set_exception(...); delete this
            /\ promise' = state
            /\ frame' = "deleted"
            /\ nset' = nset + 1
            /\ ndel' = ndel + 1
            /\ UNCHANGED <<pc, state>>
       ELSE IF RepeatStops(state.v)
       THEN \* _promise.set_value(); delete this
            /\ promise' = Value(0)
            /\ frame' = "deleted"
            /\ nset' = nset + 1
            /\ ndel' = ndel + 1
            /\ UNCHANGED <<pc, state>>
       ELSE \* _state = {}
            /\ state' = NoFuture
            /\ frame' = "running"
            /\ pc' = "run"
            /\ UNCHANGED <<promise, nset, ndel>>
    /\ UNCHANGED <<kind, len, begin, fut, ncalls, log, preempt>>
    /\ UNCHANGED nonLoopVars

\* One iteration of the do-while loop of repeater::run_and_dispose.
RepeaterIter ==
    /\ kind = "repeat"
    /\ pc = "run"
    /\ ncalls < MaxCalls
    /\ \E o \in Outcomes, val \in {stop_iteration_no, stop_iteration_yes}, need_preempt \in BOOLEAN :
        LET k == ncalls + 1
            f == futurize_invoke(o, k, val)
        IN  /\ ncalls' = k
            /\ log' = log \o InvokeEvents(f, k, 0, nrun)
            /\ preempt' = Append(preempt, need_preempt)
            /\ IF ~available(f)
               THEN \* set_callback(f, this); return
                    /\ SetCallback(f, k)
                    /\ pc' = "idle"
                    /\ UNCHANGED <<promise, nset, ndel>>
               ELSE IF failed(f)
               THEN \* f.get0() throws: _promise.set_exception(...); delete this
                    /\ promise' = f
                    /\ frame' = "deleted"
                    /\ nset' = nset + 1
                    /\ ndel' = ndel + 1
                    /\ pc' = "idle"
                    /\ UNCHANGED <<state, fut>>
               ELSE IF RepeatStops(f.v)
               THEN \* _promise.set_value(); delete this
                    /\ promise' = Value(0)
                    /\ frame' = "deleted"
                    /\ nset' = nset + 1
                    /\ ndel' = ndel + 1
                    /\ pc' = "idle"
                    /\ UNCHANGED <<state, fut>>
               ELSE IF need_preempt
               THEN \* _state.set(stop_iteration::no); schedule(this)
                    /\ state' = Value(stop_iteration_no)
                    /\ frame' = "scheduled"
                    /\ pc' = "idle"
                    /\ UNCHANGED <<promise, fut, nset, ndel>>
               ELSE UNCHANGED <<promise, pc, frame, state, fut, nset, ndel>>
    /\ UNCHANGED <<kind, len, begin, nrun>>
    /\ UNCHANGED nonLoopVars

\* ---- repeat_until_value -------------------------------------------------------------

\* std::optional<T>: 0 is std::nullopt, v > 0 is an engaged optional holding v
nullopt == 0
OptionalValues == {nullopt, 1, 2}

\* variant: an optional holding the value 1 is taken for a disengaged one
Engaged_OnlyAboveOne(v) == v > 1

\* if (optional) / if (v) / if (ret): the optional is engaged
Engaged(v) == v # nullopt

InitRepeatUntilValue == InitNoRange("repeat_until_value")

\* One iteration of the do-while loop of repeat_until_value(action), and the
\* code after the loop when need_preempt() ends it.
RepeatUntilValue ==
    /\ kind = "repeat_until_value"
    /\ pc = "call"
    /\ ncalls < MaxCalls
    /\ \E o \in Outcomes, val \in OptionalValues, need_preempt \in BOOLEAN :
        LET k == ncalls + 1
            f == futurize_invoke(o, k, val)
        IN  /\ ncalls' = k
            /\ log' = log \o InvokeEvents(f, k, 0, nrun)
            /\ preempt' = Append(preempt, need_preempt)
            /\ IF ~available(f)
               THEN \* new repeat_until_value_state(action); set_callback(f, state)
                    /\ SetCallback(f, k)
                    /\ promise' = Pending
                    /\ UNCHANGED <<nset, ndel>>
                    /\ pc' = "idle"
               ELSE IF failed(f)
               THEN \* return make_exception_future(f.get_exception())
                    /\ promise' = f
                    /\ pc' = "idle"
                    /\ UNCHANGED <<frame, state, fut, nset, ndel>>
               ELSE IF Engaged(f.v)
               THEN \* return make_ready_future(optional.value())
                    /\ promise' = Value(f.v)
                    /\ pc' = "idle"
                    /\ UNCHANGED <<frame, state, fut, nset, ndel>>
               ELSE IF need_preempt
               THEN \* new repeat_until_value_state(std::nullopt, action); schedule(state)
                    /\ state' = Value(nullopt)
                    /\ frame' = "scheduled"
                    /\ promise' = Pending
                    /\ UNCHANGED <<nset, ndel>>
                    /\ pc' = "idle"
                    /\ UNCHANGED fut
               ELSE UNCHANGED <<promise, pc, frame, state, fut, nset, ndel>>
    /\ UNCHANGED <<kind, len, begin, nrun>>
    /\ UNCHANGED nonLoopVars

\* repeat_until_value_state::run_and_dispose, up to the loop.
RepeatUntilValueRun ==
    /\ kind = "repeat_until_value"
    /\ pc = "idle"
    /\ frame = "scheduled"
    /\ nrun' = nrun + 1
    /\ IF failed(state)
       THEN \* _promise.set_exception(...); delete this
            /\ promise' = state
            /\ frame' = "deleted"
            /\ nset' = nset + 1
            /\ ndel' = ndel + 1
            /\ UNCHANGED <<pc, state>>
       ELSE IF Engaged(state.v)
       THEN \* _promise.set_value(std::move(*v)); delete this
            /\ promise' = Value(state.v)
            /\ frame' = "deleted"
            /\ nset' = nset + 1
            /\ ndel' = ndel + 1
            /\ UNCHANGED <<pc, state>>
       ELSE \* this->_state = {}
            /\ state' = NoFuture
            /\ frame' = "running"
            /\ pc' = "run"
            /\ UNCHANGED <<promise, nset, ndel>>
    /\ UNCHANGED <<kind, len, begin, fut, ncalls, log, preempt>>
    /\ UNCHANGED nonLoopVars

\* One iteration of the do-while loop of repeat_until_value_state::run_and_dispose.
RepeatUntilValueIter ==
    /\ kind = "repeat_until_value"
    /\ pc = "run"
    /\ ncalls < MaxCalls
    /\ \E o \in Outcomes, val \in OptionalValues, need_preempt \in BOOLEAN :
        LET k == ncalls + 1
            f == futurize_invoke(o, k, val)
        IN  /\ ncalls' = k
            /\ log' = log \o InvokeEvents(f, k, 0, nrun)
            /\ preempt' = Append(preempt, need_preempt)
            /\ IF ~available(f)
               THEN \* set_callback(f, this); return
                    /\ SetCallback(f, k)
                    /\ pc' = "idle"
                    /\ UNCHANGED <<promise, nset, ndel>>
               ELSE IF failed(f)
               THEN \* f.get0() throws: _promise.set_exception(...); delete this
                    /\ promise' = f
                    /\ frame' = "deleted"
                    /\ nset' = nset + 1
                    /\ ndel' = ndel + 1
                    /\ pc' = "idle"
                    /\ UNCHANGED <<state, fut>>
               ELSE IF Engaged(f.v)
               THEN \* _promise.set_value(std::move(*ret)); delete this
                    /\ promise' = Value(f.v)
                    /\ frame' = "deleted"
                    /\ nset' = nset + 1
                    /\ ndel' = ndel + 1
                    /\ pc' = "idle"
                    /\ UNCHANGED <<state, fut>>
               ELSE IF need_preempt
               THEN \* this->_state.set(std::nullopt); schedule(this)
                    /\ state' = Value(nullopt)
                    /\ frame' = "scheduled"
                    /\ pc' = "idle"
                    /\ UNCHANGED <<promise, fut, nset, ndel>>
               ELSE UNCHANGED <<promise, pc, frame, state, fut, nset, ndel>>
    /\ UNCHANGED <<kind, len, begin, nrun>>
    /\ UNCHANGED nonLoopVars

\* ---- do_until -------------------------------------------------------------------------

\* what one evaluation of stop_cond can do
StopOutcomes == {"true", "false", "throw"}

\* the exception thrown by stop_cond before invocation k of the action
StopCondError(k) == 0 - k

\* variant: the result of stop_cond is discarded
DoUntilStops_Never(s) == FALSE

\* if (stop_cond()) / if (_stop()): the loop ends successfully
DoUntilStops(s) == s = "true"

InitDoUntil == InitNoRange("do_until")

\* One iteration of the for (;;) loop of do_until(stop_cond, action).  do_until is
\* noexcept and calls stop_cond() outside any try block: a throw ends the program.
DoUntil ==
    /\ kind = "do_until"
    /\ pc = "call"
    /\ \E s \in StopOutcomes, o \in Outcomes, need_preempt \in BOOLEAN :
        LET k == ncalls + 1
            f == futurize_invoke(o, k, 0)
        IN  IF s = "throw"
            THEN \* std::terminate()
                 /\ pc' = "terminated"
                 /\ UNCHANGED <<promise, frame, state, fut, ncalls, log, preempt, nset, ndel>>
            ELSE IF DoUntilStops(s)
            THEN \* return make_ready_future<>()
                 /\ promise' = Value(0)
                 /\ pc' = "idle"
                 /\ log' = Append(log, EvStop(TRUE, nrun))
                 /\ UNCHANGED <<frame, state, fut, ncalls, preempt, nset, ndel>>
            ELSE /\ ncalls < MaxCalls
                 /\ ncalls' = k
                 /\ log' = log \o <<EvStop(s = "true", nrun)>> \o InvokeEvents(f, k, 0, nrun)
                 /\ preempt' = Append(preempt, need_preempt)
                 /\ IF failed(f)
                    THEN \* return f
                         /\ promise' = f
                         /\ pc' = "idle"
                         /\ UNCHANGED <<frame, state, fut, nset, ndel>>
                    ELSE IF ~available(f) \/ need_preempt
                    THEN \* new do_until_state; set_callback(f, task)
                         /\ SetCallback(f, k)
                         /\ promise' = Pending
                         /\ UNCHANGED <<nset, ndel>>
                         /\ pc' = "idle"
                    ELSE UNCHANGED <<promise, pc, frame, state, fut, nset, ndel>>
    /\ UNCHANGED <<kind, len, begin, nrun>>
    /\ UNCHANGED nonLoopVars

\* do_until_state::run_and_dispose, up to the loop.
DoUntilRun ==
    /\ kind = "do_until"
    /\ pc = "idle"
    /\ frame = "scheduled"
    /\ nrun' = nrun + 1
    /\ IF available(state) /\ failed(state)
       THEN \* _promise.set_urgent_state(std::move(_state)); delete this
            /\ promise' = state
            /\ frame' = "deleted"
            /\ nset' = nset + 1
            /\ ndel' = ndel + 1
            /\ UNCHANGED <<pc, state>>
       ELSE \* _state = {}
            /\ state' = NoFuture
            /\ frame' = "running"
            /\ pc' = "run"
            /\ UNCHANGED <<promise, nset, ndel>>
    /\ UNCHANGED <<kind, len, begin, fut, ncalls, log, preempt>>
    /\ UNCHANGED nonLoopVars

\* One iteration of the do-while loop of do_until_state::run_and_dispose.
DoUntilIter ==
    /\ kind = "do_until"
    /\ pc = "run"
    /\ \E s \in StopOutcomes, o \in Outcomes, need_preempt \in BOOLEAN :
        LET k == ncalls + 1
            f == IF o = "throw" THEN Failed(k) ELSE futurize_invoke(o, k, 0)
        IN  IF s = "throw"
            THEN \* catch (...): _promise.set_exception(...); delete this
                 /\ promise' = Failed(StopCondError(k))
                 /\ frame' = "deleted"
                 /\ nset' = nset + 1
                 /\ ndel' = ndel + 1
                 /\ pc' = "idle"
                 /\ UNCHANGED <<state, fut, ncalls, log, preempt>>
            ELSE IF DoUntilStops(s)
            THEN \* _promise.set_value(); delete this
                 /\ promise' = Value(0)
                 /\ frame' = "deleted"
                 /\ nset' = nset + 1
                 /\ ndel' = ndel + 1
                 /\ pc' = "idle"
                 /\ log' = Append(log, EvStop(TRUE, nrun))
                 /\ UNCHANGED <<state, fut, ncalls, preempt>>
            ELSE /\ ncalls < MaxCalls
                 /\ ncalls' = k
                 /\ log' = log \o <<EvStop(s = "true", nrun)>> \o InvokeEvents(f, k, 0, nrun)
                 /\ preempt' = Append(preempt, need_preempt)
                 /\ IF ~available(f)
                    THEN \* set_callback(f, this); return
                         /\ SetCallback(f, k)
                         /\ pc' = "idle"
                         /\ UNCHANGED <<promise, nset, ndel>>
                    ELSE IF failed(f)
                    THEN \* f.forward_to(std::move(_promise)), or the catch block
                         \* when _action() threw; delete this
                         /\ promise' = f
                         /\ frame' = "deleted"
                         /\ nset' = nset + 1
                         /\ ndel' = ndel + 1
                         /\ pc' = "idle"
                         /\ UNCHANGED <<state, fut>>
                    ELSE IF need_preempt
                    THEN \* schedule(this), _state stays empty
                         /\ frame' = "scheduled"
                         /\ pc' = "idle"
                         /\ UNCHANGED <<promise, state, fut, nset, ndel>>
                    ELSE UNCHANGED <<promise, pc, frame, state, fut, nset, ndel>>
    /\ UNCHANGED <<kind, len, begin, nrun>>
    /\ UNCHANGED nonLoopVars

\* ---- parallel_for_each ------------------------------------------------------------------

InitParallelForEach ==
    /\ kind = "parallel_for_each"
    /\ len \in 0..MaxLen
    /\ begin = 1
    /\ pc = "call"
    /\ frame = "none"
    /\ state = NoFuture
    /\ promise = NoFuture
    /\ fut = 0
    /\ ncalls = 0
    /\ nrun = 0
    /\ log = <<>>
    /\ preempt = <<>>
    /\ nset = 0
    /\ ndel = 0
    /\ futs = <<>>
    /\ incomplete = <<>>
    /\ ex = 0

\* variant: only the futures that are not available are collected
ParallelForEachCollects_PendingOnly(f) == ~available(f)

\* if (!f.available() || f.failed()): the future is handed to parallel_for_each_state
ParallelForEachCollects(f) == ~available(f) \/ failed(f)

\* The first loop of parallel_for_each_state::wait_for_one: the available futures at
\* the back of _incomplete are dropped, a failed one leaves its exception in _ex.
RECURSIVE SkipAvailable(_, _)
SkipAvailable(inc, e) ==
    IF inc # <<>> /\ available(futs[inc[Len(inc)]])
    THEN SkipAvailable(SubSeq(inc, 1, Len(inc) - 1),
                       IF failed(futs[inc[Len(inc)]]) THEN futs[inc[Len(inc)]].v ELSE e)
    ELSE [inc |-> inc, ex |-> e]

\* parallel_for_each_state::wait_for_one, entered with _ex = e: wait for the last
\* incomplete future, or deliver _result when none is left.  unresolved is the state
\* of the caller's future while the frame waits.
WaitForOne(e, unresolved) ==
    LET r == SkipAvailable(incomplete, e)
    IN  IF r.inc # <<>>
        THEN \* set_callback(_incomplete.back(), this); _incomplete.pop_back()
             /\ fut' = r.inc[Len(r.inc)]
             /\ frame' = "waiting"
             /\ incomplete' = SubSeq(r.inc, 1, Len(r.inc) - 1)
             /\ ex' = r.ex
             /\ promise' = unresolved
             /\ UNCHANGED <<nset, ndel>>
        ELSE \* _result.set_exception(_ex) or _result.set_value(); delete this
             /\ fut' = 0
             /\ frame' = "deleted"
             /\ nset' = nset + 1
             /\ ndel' = ndel + 1
             /\ incomplete' = <<>>
             /\ ex' = r.ex
             /\ promise' = IF r.ex # 0 THEN Failed(r.ex) ELSE Value(0)

\* One iteration of the while loop of parallel_for_each, and the code after it.
ParallelForEach ==
    /\ kind = "parallel_for_each"
    /\ pc = "call"
    /\ IF begin # len + 1
       THEN \E o \in Outcomes :
            LET k == ncalls + 1
                f == futurize_invoke(o, k, 0)
            IN  /\ begin' = begin + 1
                /\ ncalls' = k
                /\ futs' = Append(futs, f)
                /\ log' = log \o InvokeEvents(f, k, begin, nrun)
                /\ IF ParallelForEachCollects(f)
                   THEN \* s = new parallel_for_each_state(n) if needed; s->add_future(f)
                        /\ frame' = "running"
                        /\ incomplete' = Append(incomplete, k)
                   ELSE UNCHANGED <<frame, incomplete>>
                /\ UNCHANGED <<pc, promise, fut, ex, preempt, nset, ndel>>
       ELSE /\ IF frame # "none"
               THEN \* return s->get_future(), which calls wait_for_one()
                    WaitForOne(ex, Pending)
               ELSE \* return make_ready_future<>()
                    /\ promise' = Value(0)
                    /\ UNCHANGED <<frame, fut, incomplete, ex, nset, ndel>>
            /\ pc' = "idle"
            /\ UNCHANGED <<begin, ncalls, futs, log, preempt>>
    /\ UNCHANGED <<kind, len, state, nrun>>
    /\ UNCHANGED nonPfeVars

\* parallel_for_each_state::run_and_dispose
ParallelForEachRun ==
    /\ kind = "parallel_for_each"
    /\ pc = "idle"
    /\ frame = "scheduled"
    /\ nrun' = nrun + 1
    /\ state' = NoFuture
    /\ WaitForOne(IF failed(state) THEN state.v ELSE ex, promise)
    /\ UNCHANGED <<kind, len, begin, pc, ncalls, futs, log, preempt>>
    /\ UNCHANGED nonPfeVars

\* One of the pending futures returned by func is resolved by its producer; when it
\* is the one the frame waits for, its state moves into the frame, which is scheduled.
ResolveParallelFuture ==
    /\ kind = "parallel_for_each"
    /\ pc \in {"call", "idle"}
    /\ \E k \in DOMAIN futs, ok \in BOOLEAN :
        LET f == IF ok THEN Value(0) ELSE Failed(k)
        IN  /\ futs[k] = Pending
            /\ futs' = [futs EXCEPT ![k] = f]
            /\ log' = Append(log, EvResolve(k, f, nrun))
            /\ IF frame = "waiting" /\ fut = k
               THEN /\ state' = f
                    /\ frame' = "scheduled"
                    /\ fut' = 0
               ELSE UNCHANGED <<state, frame, fut>>
    /\ UNCHANGED <<kind, len, begin, pc, promise, ncalls, nrun, incomplete, ex, preempt, nset, ndel>>
    /\ UNCHANGED nonPfeVars

\* ---- the loop specification: one call of one of the loops -------------------------------

InitLoop ==
    /\ \/ InitDoForEach
       \/ InitRepeat
       \/ InitRepeatUntilValue
       \/ InitDoUntil
       \/ InitParallelForEach
    /\ IdleMcfe
    /\ IdleDoWith
    /\ IdleWithLock
    /\ IdleClients
    /\ IdleGate
    /\ IdleSleep
    /\ IdlePlain
    /\ IdleDefer
    /\ IdleClose
    /\ IdleSched
    /\ IdleRename
    /\ IdleRemove
    /\ IdleInject
    /\ IdleMoveGate
    /\ IdleTmp
    /\ IdleLog

NextLoop ==
    \/ DoForEachImpl
    \/ DoForEachRun
    \/ DoForEachIter
    \/ Repeat
    \/ RepeaterRun
    \/ RepeaterIter
    \/ RepeatUntilValue
    \/ RepeatUntilValueRun
    \/ RepeatUntilValueIter
    \/ DoUntil
    \/ DoUntilRun
    \/ DoUntilIter
    \/ ResolveActionFuture
    \/ ParallelForEach
    \/ ParallelForEachRun
    \/ ResolveParallelFuture

SpecLoop == InitLoop /\ [][NextLoop]_vars

\* The shard keeps executing the code it is in, the ready queue runs every scheduled
\* task, and the producer of a pending future resolves it.
SpecLoopFair ==
    /\ SpecLoop
    /\ WF_vars(DoForEachImpl)
    /\ WF_vars(DoForEachRun)
    /\ WF_vars(DoForEachIter)
    /\ WF_vars(ResolveActionFuture)

\* ---- max_concurrent_for_each ------------------------------------------------------------

\* the then_wrapped continuation of invocation k has run and seen the future f
EvObserve(k, f) ==
    [ev |-> "observe", k |-> k, el |-> 0, res |-> IF failed(f) THEN 0 ELSE 1,
     val |-> 0, run |-> 0, ready |-> 0]

\* variant: the semaphore starts with one unit more than max_concurrent
SemInitialUnits_OneMore(max_concurrent) == max_concurrent + 1

\* sem(max_concurrent_): the units the semaphore is constructed with
SemInitialUnits(max_concurrent) == max_concurrent

InitMcfe ==
    /\ s_end \in 0..MaxLen
    /\ s_begin = 1
    /\ s_max \in 1..MaxConcurrent
    /\ sem = SemInitialUnits(s_max)
    /\ waiter = 0
    /\ s_err = 0
    /\ drv = "loop"
    /\ ctx = "call"
    /\ mfuts = <<>>
    /\ handlers = <<>>
    /\ mpromise = NoFuture
    /\ holder = "alive"
    /\ dwstate = NoFuture
    /\ mlog = <<>>

\* semaphore::wait(nr) returns a ready future: enough units and nobody queued
SemMayProceed(nr) == sem >= nr /\ waiter = 0

\* variant: the unit of a completed invocation is not returned
SemSignal_Lost(count, w) == [count |-> count, waiter |-> w, woken |-> FALSE]

\* semaphore::signal(1) on count units and the waiter w: the unit is returned and
\* the waiter is granted its units and woken once they are all available
SemSignal(count, w) ==
    IF w # 0 /\ count + 1 >= w
    THEN [count |-> count + 1 - w, waiter |-> 0, woken |-> TRUE]
    ELSE [count |-> count + 1, waiter |-> w, woken |-> FALSE]

\* variant: every failure replaces the stored one
RecordErr_Overwrite(err, f) == IF failed(f) THEN f.v ELSE err

\* if (fut.failed()) { if (!s.err) s.err = e; }
RecordErr(err, f) == IF failed(f) /\ err = 0 THEN f.v ELSE err

\* if (!s.err) return make_ready_future<>(); return make_exception_future<>(s.err)
McfeResult(err) == IF err = 0 THEN Value(0) ELSE Failed(err)

\* The continuation of s.sem.wait(), entered with units units left in the semaphore:
\* futurize_invoke(s.func, *s.begin++).then_wrapped(handler).  The handler runs at
\* once when the future of func is available and need_preempt() is false; it is
\* scheduled when the future is available, attached to it otherwise.
LaunchFunc(units) ==
    \E o \in Outcomes, need_preempt \in BOOLEAN :
        LET k == Len(mfuts) + 1
            f == futurize_invoke(o, k, 0)
            sig == SemSignal(units, waiter)
        IN  /\ s_begin' = s_begin + 1
            /\ mfuts' = Append(mfuts, f)
            /\ IF available(f) /\ ~need_preempt
               THEN /\ s_err' = RecordErr(s_err, f)
                    /\ sem' = sig.count
                    /\ handlers' = Append(handlers, "done")
                    /\ mlog' = mlog \o <<EvInvoke(k, s_begin, f, 0), EvObserve(k, f)>>
               ELSE /\ s_err' = s_err
                    /\ sem' = units
                    /\ handlers' = Append(handlers, IF available(f) THEN "scheduled" ELSE "attached")
                    /\ mlog' = Append(mlog, EvInvoke(k, s_begin, f, 0))

\* the chain suspends: the caller gets the pending future of do_with, a task returns
Suspend ==
    /\ ctx' = "idle"
    /\ mpromise' = IF ctx = "call" THEN Pending ELSE mpromise

\* One iteration of do_until (in do_until itself when ctx = "call", in
\* do_until_state::run_and_dispose when ctx = "task") with the stop condition and the
\* action given by max_concurrent_for_each, and what follows the loop when it ends.
McfeLoop ==
    /\ drv = "loop"
    /\ ctx \in {"call", "task"}
    /\ IF s_begin = s_end + 1
       THEN \* s.begin == s.end: do_until is over
            /\ UNCHANGED <<s_begin, mfuts, handlers, mlog, dwstate>>
            /\ IF ctx = "task"
               THEN \* _promise.set_value() schedules the continuation of do_until
                    /\ drv' = "then_sched"
                    /\ Suspend
                    /\ UNCHANGED <<sem, waiter, s_err, holder>>
               ELSE \E preempt_then, preempt_check \in BOOLEAN :
                    IF preempt_then
                    THEN \* .then(...) on the ready future of do_until is scheduled
                         /\ drv' = "then_sched"
                         /\ Suspend
                         /\ UNCHANGED <<sem, waiter, s_err, holder>>
                    ELSE IF ~SemMayProceed(s_max)
                    THEN \* s.sem.wait(s.max_concurrent) queues
                         /\ waiter' = s_max
                         /\ drv' = "final_wait"
                         /\ Suspend
                         /\ UNCHANGED <<sem, s_err, holder>>
                    ELSE IF preempt_check
                    THEN \* the wait is ready, the last .then(...) is scheduled
                         /\ sem' = sem - s_max
                         /\ drv' = "check_sched"
                         /\ Suspend
                         /\ UNCHANGED <<waiter, s_err, holder>>
                    ELSE \* everything was ready: do_with_impl returns the available
                         \* future and destroys the holder
                         /\ sem' = sem - s_max
                         /\ mpromise' = McfeResult(s_err)
                         /\ s_err' = 0
                         /\ holder' = "destroyed"
                         /\ drv' = "done"
                         /\ ctx' = "idle"
                         /\ UNCHANGED waiter
       ELSE /\ UNCHANGED <<holder, dwstate>>
            /\ IF ~SemMayProceed(1)
               THEN \* s.sem.wait() queues, the future of the action is pending
                    /\ waiter' = 1
                    /\ drv' = "sem_wait"
                    /\ Suspend
                    /\ UNCHANGED <<s_begin, sem, s_err, mfuts, handlers, mlog>>
               ELSE \E preempt_then, preempt_loop \in BOOLEAN :
                    IF preempt_then
                    THEN \* the unit is taken, .then(...) is scheduled
                         /\ sem' = sem - 1
                         /\ drv' = "launch_sched"
                         /\ Suspend
                         /\ UNCHANGED <<s_begin, waiter, s_err, mfuts, handlers, mlog>>
                    ELSE /\ LaunchFunc(sem - 1)
                         /\ UNCHANGED waiter
                         /\ IF preempt_loop
                            THEN \* the frame of do_until is scheduled
                                 /\ drv' = "loop_sched"
                                 /\ Suspend
                            ELSE UNCHANGED <<drv, ctx, mpromise>>
    /\ UNCHANGED <<s_end, s_max>>
    /\ UNCHANGED nonMcfeVars

\* The scheduled continuation of s.sem.wait() runs; the future of the action
\* resolves and the frame of do_until, which waits for it, is scheduled.
McfeLaunchTask ==
    /\ drv = "launch_sched"
    /\ ctx = "idle"
    /\ LaunchFunc(sem)
    /\ drv' = "loop_sched"
    /\ UNCHANGED <<s_end, s_max, waiter, ctx, mpromise, holder, dwstate>>
    /\ UNCHANGED nonMcfeVars

\* do_until_state::run_and_dispose starts: the action did not fail
McfeLoopTask ==
    /\ drv = "loop_sched"
    /\ ctx = "idle"
    /\ drv' = "loop"
    /\ ctx' = "task"
    /\ UNCHANGED <<s_end, s_begin, s_max, sem, waiter, s_err, mfuts, handlers,
                   mpromise, holder, dwstate, mlog>>
    /\ UNCHANGED nonMcfeVars

\* The scheduled continuation of do_until runs: return s.sem.wait(s.max_concurrent)
McfeThenTask ==
    /\ drv = "then_sched"
    /\ ctx = "idle"
    /\ IF SemMayProceed(s_max)
       THEN /\ sem' = sem - s_max
            /\ drv' = "check_sched"
            /\ UNCHANGED waiter
       ELSE /\ waiter' = s_max
            /\ drv' = "final_wait"
            /\ UNCHANGED sem
    /\ UNCHANGED <<s_end, s_begin, s_max, s_err, ctx, mfuts, handlers, mpromise,
                   holder, dwstate, mlog>>
    /\ UNCHANGED nonMcfeVars

\* The last continuation runs: its result resolves the future do_with_state waits for
McfeCheckTask ==
    /\ drv = "check_sched"
    /\ ctx = "idle"
    /\ dwstate' = McfeResult(s_err)
    /\ s_err' = 0
    /\ drv' = "dw_sched"
    /\ UNCHANGED <<s_end, s_begin, s_max, sem, waiter, ctx, mfuts, handlers, mpromise,
                   holder, mlog>>
    /\ UNCHANGED nonMcfeVars

\* do_with_state::run_and_dispose: _pr.set_urgent_state(_state); delete this
McfeDoWithTask ==
    /\ drv = "dw_sched"
    /\ ctx = "idle"
    /\ mpromise' = dwstate
    /\ holder' = "destroyed"
    /\ drv' = "done"
    /\ UNCHANGED <<s_end, s_begin, s_max, sem, waiter, s_err, ctx, mfuts, handlers,
                   dwstate, mlog>>
    /\ UNCHANGED nonMcfeVars

\* The pending future of an invocation of func is resolved by its producer; the
\* then_wrapped continuation attached to it is scheduled.
McfeFuncResolves ==
    /\ \E k \in DOMAIN mfuts, ok \in BOOLEAN :
        LET f == IF ok THEN Value(0) ELSE Failed(k)
        IN  /\ mfuts[k] = Pending
            /\ mfuts' = [mfuts EXCEPT ![k] = f]
            /\ handlers' = [handlers EXCEPT ![k] = "scheduled"]
    /\ UNCHANGED <<s_end, s_begin, s_max, sem, waiter, s_err, drv, ctx, mpromise,
                   holder, dwstate, mlog>>
    /\ UNCHANGED nonMcfeVars

\* The scheduled then_wrapped continuation of an invocation runs: it records the
\* first failure and signals the semaphore, which may wake the chain.
McfeHandlerTask ==
    /\ ctx = "idle"
    /\ \E k \in DOMAIN handlers :
        LET sig == SemSignal(sem, waiter)
        IN  /\ handlers[k] = "scheduled"
            /\ handlers' = [handlers EXCEPT ![k] = "done"]
            /\ s_err' = RecordErr(s_err, mfuts[k])
            /\ sem' = sig.count
            /\ waiter' = sig.waiter
            /\ drv' = IF ~sig.woken THEN drv
                      ELSE IF drv = "sem_wait" THEN "launch_sched" ELSE "check_sched"
            /\ mlog' = Append(mlog, EvObserve(k, mfuts[k]))
    /\ UNCHANGED <<s_end, s_begin, s_max, ctx, mfuts, mpromise, holder, dwstate>>
    /\ UNCHANGED nonMcfeVars

InitMcfeSpec == InitMcfe /\ IdleLoop /\ IdleDoWith /\ IdleWithLock /\ IdleClients /\ IdleGate /\ IdleSleep /\ IdlePlain /\ IdleDefer /\ IdleClose /\ IdleSched /\ IdleRename /\ IdleRemove /\ IdleInject /\ IdleMoveGate /\ IdleTmp /\ IdleLog

NextMcfe ==
    \/ McfeLoop
    \/ McfeLaunchTask
    \/ McfeLoopTask
    \/ McfeThenTask
    \/ McfeCheckTask
    \/ McfeDoWithTask
    \/ McfeFuncResolves
    \/ McfeHandlerTask

SpecMcfe == InitMcfeSpec /\ [][NextMcfe]_vars

\* the scheduler runs every ready task and every invocation of func resolves
SpecMcfeFair == SpecMcfe /\ WF_vars(NextMcfe)

McfeTypeOK ==
    /\ s_begin \in 1..(s_end + 1)
    /\ sem \in 0..s_max
    /\ waiter \in {0, 1, s_max}
    /\ drv \in {"none", "loop", "sem_wait", "launch_sched", "loop_sched", "then_sched",
                "final_wait", "check_sched", "dw_sched", "done"}
    /\ ctx \in {"call", "task", "idle"}
    /\ Len(handlers) = Len(mfuts)
    /\ holder \in {"none", "alive", "destroyed"}
    /\ waiter # 0 <=> drv \in {"sem_wait", "final_wait"}

\* ---- do_with ------------------------------------------------------------------------------

InitDoWith ==
    /\ dw_task = [c \in DoWithCalls |-> "none"]
    /\ dw_fut = [c \in DoWithCalls |-> NoFuture]
    /\ dw_threw = [c \in DoWithCalls |-> FALSE]
    /\ dw_state = [c \in DoWithCalls |-> NoFuture]
    /\ dw_ret = [c \in DoWithCalls |-> NoFuture]
    /\ dw_ndel = [c \in DoWithCalls |-> 0]

\* variant: the unique_ptr is not released, the holder dies when do_with_impl returns
TaskAfterReturn_NotReleased(f) == "deleted"

\* if (fut.available()) return fut (the unique_ptr destroys the do_with_state);
\* otherwise set_callback(fut, task.release())
TaskAfterReturn(f) == IF available(f) THEN "deleted" ELSE "waiting"

\* do_with(values..., f) for call c: do_with_impl under futurize_invoke.
\* The exception thrown by f, or the failure of its future, is c.
DoWith(c) ==
    /\ dw_task[c] = "none"
    /\ \E o \in Outcomes, val \in {1, 2} :
        IF o = "throw"
        THEN \* the exception unwinds do_with_impl: the unique_ptr destroys the
             \* do_with_state and futurize_invoke returns a failed future
             /\ dw_threw' = [dw_threw EXCEPT ![c] = TRUE]
             /\ dw_task' = [dw_task EXCEPT ![c] = "deleted"]
             /\ dw_ndel' = [dw_ndel EXCEPT ![c] = @ + 1]
             /\ dw_ret' = [dw_ret EXCEPT ![c] = Failed(c)]
             /\ UNCHANGED dw_fut
        ELSE LET f == futurize_invoke(o, c, val)
             IN  /\ dw_fut' = [dw_fut EXCEPT ![c] = f]
                 /\ dw_task' = [dw_task EXCEPT ![c] = TaskAfterReturn(f)]
                 /\ dw_ndel' = [dw_ndel EXCEPT ![c] =
                                    IF TaskAfterReturn(f) = "deleted" THEN @ + 1 ELSE @]
                 /\ dw_ret' = [dw_ret EXCEPT ![c] = IF available(f) THEN f ELSE Pending]
                 /\ UNCHANGED dw_threw
    /\ UNCHANGED dw_state
    /\ UNCHANGED nonDwVars

\* The pending future returned by f is resolved by its producer: its state moves
\* into the do_with_state, which is scheduled.
DoWithFutureResolves(c) ==
    /\ dw_fut[c] = Pending
    /\ \E ok \in BOOLEAN, val \in {1, 2} :
        LET f == IF ok THEN Value(val) ELSE Failed(c)
        IN  /\ dw_fut' = [dw_fut EXCEPT ![c] = f]
            /\ dw_state' = [dw_state EXCEPT ![c] = f]
    /\ dw_task' = [dw_task EXCEPT ![c] = "scheduled"]
    /\ UNCHANGED <<dw_threw, dw_ret, dw_ndel>>
    /\ UNCHANGED nonDwVars

\* do_with_state::run_and_dispose: _pr.set_urgent_state(std::move(_state)); delete this
DoWithStateRun(c) ==
    /\ dw_task[c] = "scheduled"
    /\ dw_ret' = [dw_ret EXCEPT ![c] = dw_state[c]]
    /\ dw_task' = [dw_task EXCEPT ![c] = "deleted"]
    /\ dw_ndel' = [dw_ndel EXCEPT ![c] = @ + 1]
    /\ UNCHANGED <<dw_fut, dw_threw, dw_state>>
    /\ UNCHANGED nonDwVars

InitDoWithSpec == InitDoWith /\ IdleLoop /\ IdleMcfe /\ IdleWithLock /\ IdleClients /\ IdleGate /\ IdleSleep /\ IdlePlain /\ IdleDefer /\ IdleClose /\ IdleSched /\ IdleRename /\ IdleRemove /\ IdleInject /\ IdleMoveGate /\ IdleTmp /\ IdleLog

NextDoWith ==
    \/ \E c \in DoWithCalls : DoWith(c)
    \/ \E c \in DoWithCalls : DoWithFutureResolves(c)
    \/ \E c \in DoWithCalls : DoWithStateRun(c)

SpecDoWith == InitDoWithSpec /\ [][NextDoWith]_vars

\* ---- the shared mutex behind the two views of a read-write lock -------------------------

\* try_lock_shared: no writer holds the lock and nobody waits
TryLockShared == ~writer /\ waiters = <<>>

\* try_lock: no reader and no writer holds the lock
TryLock == readers = 0 /\ ~writer

RECURSIVE Wake(_, _, _, _)
\* wake: a writer at the front is granted the lock iff no reader is left and ends
\* the scan; every reader before it is granted the lock. woken collects the calls
\* whose promise was set.
Wake(rd, wr, ws, woken) ==
    IF ws = <<>>
    THEN [readers |-> rd, writer |-> wr, waiters |-> ws, woken |-> woken]
    ELSE IF Head(ws).for_write
         THEN IF rd = 0
              THEN [readers |-> rd, writer |-> TRUE, waiters |-> Tail(ws),
                    woken |-> woken \cup {Head(ws).fiber}]
              ELSE [readers |-> rd, writer |-> wr, waiters |-> ws, woken |-> woken]
         ELSE Wake(rd + 1, wr, Tail(ws), woken \cup {Head(ws).fiber})

\* unlock of the view m: unlock_shared decrements _readers (an unsigned counter, here
\* its representative modulo the width nearest to zero: only the test against zero
\* reads it), unlock clears _writer; both then wake
Unlock(m) ==
    IF m = "write"
    THEN Wake(readers, FALSE, waiters, {})
    ELSE Wake(readers - 1, writer, waiters, {})

\* variant: the caller gets a pending future but no waiter is queued
Wait_NotQueued(ws, i, for_write) == ws

\* variant: the waiter is put at the front of the queue
Wait_PushFront(ws, i, for_write) == <<[fiber |-> i, for_write |-> for_write]>> \o ws

\* shared_mutex::wait when the queue can grow: _waiters.emplace_back(promise<>(),
\* for_write), the caller gets the future of that promise
Wait(ws, i, for_write) == Append(ws, [fiber |-> i, for_write |-> for_write])

\* the failure of lock() of call i
LockError(i) == 0 - i

\* ---- with_lock -----------------------------------------------------------------------------

InitWithLock ==
    /\ readers = 0
    /\ writer = FALSE
    /\ waiters = <<>>
    /\ mode \in [Fibers -> {"read", "write"}]
    /\ fpc = [i \in Fibers |-> "start"]
    /\ lockfut = [i \in Fibers |-> NoFuture]
    /\ funcfut = [i \in Fibers |-> NoFuture]
    /\ outcome = [i \in Fibers |-> "none"]
    /\ result = [i \in Fibers |-> NoFuture]
    /\ nunlock = [i \in Fibers |-> 0]

\* the future of lock.lock().then(func): the failure of lock(), else the future of func
Chained(lf, ff) == IF failed(lf) THEN lf ELSE ff

\* variant: the lock is released by then(), which skips a failed future
HandlerRuns_ValueOnly(f) == available(f) /\ ~failed(f)

\* then_wrapped runs its function on the available future, failed or not
HandlerRuns(f) == available(f)

\* The function handed to then_wrapped runs for call i on the chained future f:
\* lock.unlock(); return std::move(fut). The calls that unlock wakes have the
\* continuation of their lock() scheduled. Sets the lock, result and nunlock;
\* pcs and lfs are fpc and lockfut as the caller leaves them.
UnlockAndReturn(i, f, pcs, lfs) ==
    LET u == IF HandlerRuns(f)
             THEN Unlock(mode[i])
             ELSE [readers |-> readers, writer |-> writer, waiters |-> waiters,
                   woken |-> {}]
    IN  /\ readers' = u.readers
        /\ writer' = u.writer
        /\ waiters' = u.waiters
        /\ nunlock' = [nunlock EXCEPT ![i] = IF HandlerRuns(f) THEN @ + 1 ELSE @]
        /\ result' = [result EXCEPT ![i] = f]
        /\ fpc' = [j \in Fibers |->
                      IF j = i THEN "done"
                      ELSE IF j \in u.woken THEN "func_sched" ELSE pcs[j]]
        /\ lockfut' = [j \in Fibers |-> IF j \in u.woken THEN Value(0) ELSE lfs[j]]

\* with_lock(lock, func) is called for call i: lock.lock(), then the two
\* continuations are attached, each run at once when its future is available and
\* no preemption is needed.
WithLock(i) ==
    /\ fpc[i] = "start"
    /\ \E alloc_fails \in BOOLEAN, np1 \in BOOLEAN, np2 \in BOOLEAN, o \in Outcomes,
          val \in {1, 2} :
        LET granted == IF mode[i] = "write" THEN TryLock ELSE TryLockShared
            \* lock(): granted at once, or wait(): queued unless the queue cannot grow
            lf == IF granted THEN Value(0)
                  ELSE IF alloc_fails THEN Failed(LockError(i)) ELSE Pending
            rd1 == IF granted /\ mode[i] = "read" THEN readers + 1 ELSE readers
            wr1 == IF granted /\ mode[i] = "write" THEN TRUE ELSE writer
            ws1 == IF lf = Pending
                   THEN Wait(waiters, i, mode[i] = "write")
                   ELSE waiters
            lfs == [lockfut EXCEPT ![i] = lf]
            inline1 == available(lf) /\ ~np1
            invoked == inline1 /\ ~failed(lf)
            ff == IF invoked THEN futurize_invoke(o, i, val) ELSE NoFuture
            t == Chained(lf, ff)
            inline2 == inline1 /\ available(t) /\ ~np2
        IN  /\ granted => ~alloc_fails
            /\ ~available(lf) => ~np1
            /\ ~invoked => o = "ready" /\ val = 1
            /\ ~(inline1 /\ available(t)) => ~np2
            /\ funcfut' = [funcfut EXCEPT ![i] = ff]
            /\ outcome' = [outcome EXCEPT ![i] = IF invoked THEN o ELSE "none"]
            /\ IF inline2
               THEN \* the lock was taken just above: unlock sees that state
                    LET u == IF HandlerRuns(t)
                             THEN IF mode[i] = "write"
                                  THEN Wake(rd1, FALSE, ws1, {})
                                  ELSE Wake(rd1 - 1, wr1, ws1, {})
                             ELSE [readers |-> rd1, writer |-> wr1, waiters |-> ws1,
                                   woken |-> {}]
                    IN  /\ readers' = u.readers
                        /\ writer' = u.writer
                        /\ waiters' = u.waiters
                        /\ nunlock' = [nunlock EXCEPT ![i] =
                                           IF HandlerRuns(t) THEN @ + 1 ELSE @]
                        /\ result' = [result EXCEPT ![i] = t]
                        /\ fpc' = [j \in Fibers |->
                                      IF j = i THEN "done"
                                      ELSE IF j \in u.woken THEN "func_sched"
                                      ELSE fpc[j]]
                        /\ lockfut' = [j \in Fibers |->
                                          IF j \in u.woken THEN Value(0) ELSE lfs[j]]
               ELSE /\ readers' = rd1
                    /\ writer' = wr1
                    /\ waiters' = ws1
                    /\ lockfut' = lfs
                    /\ result' = [result EXCEPT ![i] = Pending]
                    /\ fpc' = [fpc EXCEPT ![i] =
                                  IF lf = Pending THEN "lock_wait"
                                  ELSE IF ~inline1 THEN "func_sched"
                                  ELSE IF t = Pending THEN "func_pending"
                                  ELSE "unlock_sched"]
                    /\ UNCHANGED nunlock
    /\ UNCHANGED mode
    /\ UNCHANGED nonWlVars

\* The continuation attached by then() runs for call i: a failed lock() is passed
\* on without invoking func; otherwise func is invoked, a throw becoming a failed
\* future. An available result schedules the function of then_wrapped.
WithLockFuncTask(i) ==
    /\ fpc[i] = "func_sched"
    /\ \E o \in Outcomes, val \in {1, 2} :
        LET invoked == ~failed(lockfut[i])
            ff == IF invoked THEN futurize_invoke(o, i, val) ELSE NoFuture
        IN  /\ ~invoked => o = "ready" /\ val = 1
            /\ funcfut' = [funcfut EXCEPT ![i] = ff]
            /\ outcome' = [outcome EXCEPT ![i] = IF invoked THEN o ELSE "none"]
            /\ fpc' = [fpc EXCEPT ![i] =
                          IF Chained(lockfut[i], ff) = Pending THEN "func_pending"
                          ELSE "unlock_sched"]
    /\ UNCHANGED <<readers, writer, waiters, mode, lockfut, result, nunlock>>
    /\ UNCHANGED nonWlVars

\* The pending future returned by func is resolved by its producer.
WithLockFuncResolves(i) ==
    /\ fpc[i] = "func_pending"
    /\ \E ok \in BOOLEAN, val \in {1, 2} :
        funcfut' = [funcfut EXCEPT ![i] = IF ok THEN Value(val) ELSE Failed(i)]
    /\ fpc' = [fpc EXCEPT ![i] = "unlock_sched"]
    /\ UNCHANGED <<readers, writer, waiters, mode, lockfut, outcome, result, nunlock>>
    /\ UNCHANGED nonWlVars

\* The continuation attached by then_wrapped runs for call i.
WithLockUnlockTask(i) ==
    /\ fpc[i] = "unlock_sched"
    /\ UnlockAndReturn(i, Chained(lockfut[i], funcfut[i]), fpc, lockfut)
    /\ UNCHANGED <<mode, funcfut, outcome>>
    /\ UNCHANGED nonWlVars

InitWithLockSpec == InitWithLock /\ IdleLoop /\ IdleMcfe /\ IdleDoWith /\ IdleClients /\ IdleGate /\ IdleSleep /\ IdlePlain /\ IdleDefer /\ IdleClose /\ IdleSched /\ IdleRename /\ IdleRemove /\ IdleInject /\ IdleMoveGate /\ IdleTmp /\ IdleLog

NextWithLock ==
    \/ \E i \in Fibers : WithLock(i)
    \/ \E i \in Fibers : WithLockFuncTask(i)
    \/ \E i \in Fibers : WithLockFuncResolves(i)
    \/ \E i \in Fibers : WithLockUnlockTask(i)

SpecWithLock == InitWithLockSpec /\ [][NextWithLock]_vars

WithLockTypeOK ==
    /\ readers \in (0 - MaxFibers)..MaxFibers
    /\ writer \in BOOLEAN
    /\ \A i \in DOMAIN fpc :
        /\ fpc[i] \in {"start", "lock_wait", "func_sched", "func_pending",
                       "unlock_sched", "done"}
        /\ outcome[i] \in Outcomes \cup {"none"}
        /\ nunlock[i] \in 0..1

\* ---- direct calls on the shared mutex -------------------------------------------------------

InitMutex ==
    /\ cpc = [i \in Clients |-> "idle"]
    /\ ret = [op |-> "none", fiber |-> 0, res |-> "none"]

\* the record of a call
Ret(op, i, res) == [op |-> op, fiber |-> i, res |-> res]

\* what the calls whose promise wake sets hold from then on
Granted(u, pcs) ==
    [j \in Clients |->
        IF j \in u.woken
        THEN IF pcs[j] = "wait_write" THEN "hold_write" ELSE "hold_read"
        ELSE pcs[j]]

\* lock() (for_write) or lock_shared() by fiber i: the try succeeds and the future is
\* ready, or wait(): the fiber is queued, or the queue cannot grow and the future
\* fails
MutexLock(i, for_write) ==
    /\ cpc[i] = "idle"
    /\ LET granted == IF for_write THEN TryLock ELSE TryLockShared
           op == IF for_write THEN "lock" ELSE "lock_shared"
       IN  IF granted
           THEN /\ readers' = IF for_write THEN readers ELSE readers + 1
                /\ writer' = IF for_write THEN TRUE ELSE writer
                /\ UNCHANGED waiters
                /\ cpc' = [cpc EXCEPT ![i] = IF for_write THEN "hold_write"
                                                          ELSE "hold_read"]
                /\ ret' = Ret(op, i, "ready")
           ELSE \E alloc_fails \in BOOLEAN :
                IF alloc_fails
                THEN /\ UNCHANGED <<lockVars, cpc>>
                     /\ ret' = Ret(op, i, "failed")
                ELSE /\ waiters' = Wait(waiters, i, for_write)
                     /\ UNCHANGED <<readers, writer>>
                     /\ cpc' = [cpc EXCEPT ![i] = IF for_write THEN "wait_write"
                                                               ELSE "wait_read"]
                     /\ ret' = Ret(op, i, "pending")
    /\ UNCHANGED nonMutexVars

\* try_lock() (for_write) or try_lock_shared() by fiber i
MutexTryLock(i, for_write) ==
    /\ cpc[i] = "idle"
    /\ LET granted == IF for_write THEN TryLock ELSE TryLockShared
           op == IF for_write THEN "try_lock" ELSE "try_lock_shared"
       IN  IF granted
           THEN /\ readers' = IF for_write THEN readers ELSE readers + 1
                /\ writer' = IF for_write THEN TRUE ELSE writer
                /\ UNCHANGED waiters
                /\ cpc' = [cpc EXCEPT ![i] = IF for_write THEN "hold_write"
                                                          ELSE "hold_read"]
                /\ ret' = Ret(op, i, "true")
           ELSE /\ UNCHANGED <<lockVars, cpc>>
                /\ ret' = Ret(op, i, "false")
    /\ UNCHANGED nonMutexVars

\* unlock() or unlock_shared() by the fiber i that holds the lock
MutexUnlock(i) ==
    /\ cpc[i] \in {"hold_read", "hold_write"}
    /\ LET u == Unlock(IF cpc[i] = "hold_write" THEN "write" ELSE "read")
       IN  /\ readers' = u.readers
           /\ writer' = u.writer
           /\ waiters' = u.waiters
           /\ cpc' = Granted(u, [cpc EXCEPT ![i] = "idle"])
           /\ ret' = Ret(IF cpc[i] = "hold_write" THEN "unlock" ELSE "unlock_shared",
                         i, "void")
    /\ UNCHANGED nonMutexVars

InitMutexSpec == InitMutex /\ IdleLoop /\ IdleMcfe /\ IdleDoWith /\ IdleWithLock /\ IdleGate /\ IdleSleep /\ IdlePlain /\ IdleDefer /\ IdleClose /\ IdleSched /\ IdleRename /\ IdleRemove /\ IdleInject /\ IdleMoveGate /\ IdleTmp /\ IdleLog

NextMutex ==
    \/ \E i \in Clients, for_write \in BOOLEAN : MutexLock(i, for_write)
    \/ \E i \in Clients, for_write \in BOOLEAN : MutexTryLock(i, for_write)
    \/ \E i \in Clients : MutexUnlock(i)

SpecMutex == InitMutexSpec /\ [][NextMutex]_vars

\* every fiber that holds the lock unlocks it at some time
SpecMutexFair == SpecMutex /\ \A i \in Clients : WF_vars(MutexUnlock(i))

\* ---- gate, and the timer that runs its callbacks under a gate ----------------------------

InitGate ==
    /\ g_count = 0
    /\ g_stopped = NoFuture
    /\ g_nset = 0
    /\ t_armed = FALSE
    /\ gop = [k \in Ops |-> "none"]
    /\ gfut = [k \in Ops |-> NoFuture]
    /\ grun = [k \in Ops |-> FALSE]

\* the failure of enter() and with_gate() on a closed gate
GateClosedError == 0 - 1

\* variant: the gate never turns an operation away
IsClosed_Never(stopped) == FALSE

\* gate::is_closed: close() was called
IsClosed(stopped) == stopped # NoFuture

\* variant: every leave after close() resolves the future of close()
LeaveResolves_AnyLeave(count, stopped) == stopped = Pending

\* gate::leave, after --_count: the last operation out of a closed gate resolves
\* the future of close()
LeaveResolves(count, stopped) == count = 0 /\ stopped = Pending

\* gate::leave on the count c: the new _count, _stopped and number of resolutions
Leave(c) ==
    [count |-> c - 1,
     stopped |-> IF LeaveResolves(c - 1, g_stopped) THEN Value(0) ELSE g_stopped,
     nset |-> IF LeaveResolves(c - 1, g_stopped) THEN g_nset + 1 ELSE g_nset]

\* gate::enter by operation k: throws when the gate is closed, else ++_count
GateEnter(k) ==
    /\ gop[k] = "none"
    /\ IF IsClosed(g_stopped)
       THEN /\ gop' = [gop EXCEPT ![k] = "closed"]
            /\ gfut' = [gfut EXCEPT ![k] = Failed(GateClosedError)]
            /\ UNCHANGED g_count
       ELSE /\ gop' = [gop EXCEPT ![k] = "entered"]
            /\ g_count' = g_count + 1
            /\ UNCHANGED gfut
    /\ UNCHANGED <<g_stopped, g_nset, t_armed, grun>>
    /\ UNCHANGED nonGateVars

\* gate::leave by the operation k that entered
GateLeave(k) ==
    /\ gop[k] = "entered"
    /\ gop' = [gop EXCEPT ![k] = "left"]
    /\ g_count' = Leave(g_count).count
    /\ g_stopped' = Leave(g_count).stopped
    /\ g_nset' = Leave(g_count).nset
    /\ UNCHANGED <<t_armed, gfut, grun>>
    /\ UNCHANGED nonGateVars

\* timer::arm: arm_state and the timer is queued
TimerArm ==
    /\ ~t_armed
    /\ \E k \in Ops : gop[k] = "none"
    /\ t_armed' = TRUE
    /\ UNCHANGED <<g_count, g_stopped, g_nset, gop, gfut, grun>>
    /\ UNCHANGED nonGateVars

\* The armed timer expires and its callback runs as operation k: the function made
\* by wrap_callback, (void)with_gate(_gate, [func] { return futurize_invoke(func); }).
\* with_gate enters, invokes and attaches the leave with finally(), which runs at once
\* when the future is available and no preemption is needed.
TimerExpire(k) ==
    /\ t_armed
    /\ gop[k] = "none"
    /\ t_armed' = FALSE
    /\ IF IsClosed(g_stopped)
       THEN /\ gop' = [gop EXCEPT ![k] = "closed"]
            /\ gfut' = [gfut EXCEPT ![k] = Failed(GateClosedError)]
            /\ UNCHANGED <<g_count, g_stopped, g_nset, grun>>
       ELSE \E o \in Outcomes, need_preempt \in BOOLEAN :
            LET f == futurize_invoke(o, k, 0)
                inline == available(f) /\ ~need_preempt
            IN  /\ ~available(f) => ~need_preempt
                /\ grun' = [grun EXCEPT ![k] = TRUE]
                /\ gfut' = [gfut EXCEPT ![k] = f]
                /\ gop' = [gop EXCEPT ![k] = IF inline THEN "done"
                                              ELSE IF available(f) THEN "leave_sched"
                                              ELSE "running"]
                /\ g_count' = IF inline THEN Leave(g_count + 1).count ELSE g_count + 1
                /\ g_stopped' = IF inline THEN Leave(g_count + 1).stopped ELSE g_stopped
                /\ g_nset' = IF inline THEN Leave(g_count + 1).nset ELSE g_nset
    /\ UNCHANGED nonGateVars

\* The pending future of the callback of operation k is resolved by its producer.
GateFuncResolves(k) ==
    /\ gop[k] = "running"
    /\ \E ok \in BOOLEAN : gfut' = [gfut EXCEPT ![k] = IF ok THEN Value(0) ELSE Failed(k)]
    /\ gop' = [gop EXCEPT ![k] = "leave_sched"]
    /\ UNCHANGED <<g_count, g_stopped, g_nset, t_armed, grun>>
    /\ UNCHANGED nonGateVars

\* The continuation attached by finally() runs for operation k: g.leave()
GateLeaveTask(k) ==
    /\ gop[k] = "leave_sched"
    /\ gop' = [gop EXCEPT ![k] = "done"]
    /\ g_count' = Leave(g_count).count
    /\ g_stopped' = Leave(g_count).stopped
    /\ g_nset' = Leave(g_count).nset
    /\ UNCHANGED <<t_armed, gfut, grun>>
    /\ UNCHANGED nonGateVars

\* timer::stop: cancel(); return _gate.close(). close() may be called once; its
\* future is ready when no operation is inside the gate.
TimerStop ==
    /\ g_stopped = NoFuture
    /\ t_armed' = FALSE
    /\ g_stopped' = IF g_count = 0 THEN Value(0) ELSE Pending
    /\ g_nset' = IF g_count = 0 THEN g_nset + 1 ELSE g_nset
    /\ UNCHANGED <<g_count, gop, gfut, grun>>
    /\ UNCHANGED nonGateVars

InitGateSpec == InitGate /\ IdleLoop /\ IdleMcfe /\ IdleDoWith /\ IdleWithLock /\ IdleClients /\ IdleSleep /\ IdlePlain /\ IdleDefer /\ IdleClose /\ IdleSched /\ IdleRename /\ IdleRemove /\ IdleInject /\ IdleMoveGate /\ IdleTmp /\ IdleLog

NextGate ==
    \/ \E k \in Ops : GateEnter(k)
    \/ \E k \in Ops : GateLeave(k)
    \/ TimerArm
    \/ \E k \in Ops : TimerExpire(k)
    \/ \E k \in Ops : GateFuncResolves(k)
    \/ \E k \in Ops : GateLeaveTask(k)
    \/ TimerStop

SpecGate == InitGateSpec /\ [][NextGate]_vars

\* ---- sleep_abortable(dur, as): a sleeper subscribed to an abort source ----------------------

\* the errors of the sleeps
SleepAbortedError == 0 - 2
CvTimedOutError == 0 - 3
BrokenCvError == 0 - 4

InitSleep ==
    /\ as_aborted = FALSE
    /\ as_subs = <<>>
    /\ ablog = <<>>
    /\ nabort = 0
    /\ reg = <<>>
    /\ sl_pc = [s \in Sleepers |-> "none"]
    /\ sl_entry = [s \in Sleepers |-> "none"]
    /\ tmr_armed = [s \in Sleepers |-> FALSE]
    /\ done = [s \in Sleepers |-> NoFuture]
    /\ nres = [s \in Sleepers |-> 0]
    /\ ncb = [s \in Sleepers |-> 0]
    /\ narm = [s \in Sleepers |-> 0]

\* the members of a sequence
Members(q) == {q[j] : j \in 1..Len(q)}

\* variant: the timer is armed whatever subscribe() returned
ArmsTimer_Always(sc_opt) == TRUE

\* the sleeper arms its timer only with a subscription: if (sc_opt) { ...; tmr.arm(dur); }
ArmsTimer(sc_opt) == sc_opt

\* variant: the callback fails the promise whatever cancel() returned
AbortCallbackSets_Always(cancelled) == TRUE

\* the subscription callback of the sleeper: if (tmr.cancel()) done.set_exception(...)
AbortCallbackSets(cancelled) == cancelled

\* variant: the subscription outlives the sleeper
SleeperDestroyed_KeepsSubscription(subs, s) == subs

\* The sleeper owned by the finally() continuation is destroyed: its member sc
\* leaves the subscriptions of the source.
SleeperDestroyed(subs, s) == SelectSeq(subs, LAMBDA x : x # s)

\* sleep_abortable(dur, as) by sleeper s: the sleeper is constructed and finally()
\* is attached to the future of done, which runs at once on an available future
\* when no preemption is needed.
SleepAbortable(s) ==
    /\ sl_pc[s] = "none"
    /\ sl_entry' = [sl_entry EXCEPT ![s] = IF as_aborted THEN "aborted" ELSE "live"]
    /\ LET sc_opt == ~as_aborted
           arms == ArmsTimer(sc_opt)
       IN  /\ as_subs' = IF sc_opt THEN Append(as_subs, s) ELSE as_subs
           /\ reg' = IF sc_opt THEN Append(reg, s) ELSE reg
           /\ tmr_armed' = [tmr_armed EXCEPT ![s] = arms]
           /\ narm' = [narm EXCEPT ![s] = IF arms THEN @ + 1 ELSE @]
           /\ done' = [done EXCEPT ![s] = IF sc_opt THEN Pending ELSE Failed(SleepAbortedError)]
           /\ nres' = [nres EXCEPT ![s] = IF sc_opt THEN @ ELSE @ + 1]
           /\ \E need_preempt \in BOOLEAN :
                /\ sc_opt => ~need_preempt
                /\ sl_pc' = [sl_pc EXCEPT ![s] = IF sc_opt THEN "sleeping"
                                                  ELSE IF need_preempt THEN "finally_sched"
                                                  ELSE "finished"]
    /\ UNCHANGED <<as_aborted, ablog, nabort, ncb>>
    /\ UNCHANGED nonSleepVars

\* The armed timer of sleeper s expires and its callback runs: done.set_value()
SleeperTimerFires(s) ==
    /\ tmr_armed[s]
    /\ sl_pc[s] # "finished"
    /\ tmr_armed' = [tmr_armed EXCEPT ![s] = FALSE]
    /\ ncb' = [ncb EXCEPT ![s] = @ + 1]
    /\ done' = [done EXCEPT ![s] = Value(0)]
    /\ nres' = [nres EXCEPT ![s] = @ + 1]
    /\ sl_pc' = [sl_pc EXCEPT ![s] = "finally_sched"]
    /\ UNCHANGED <<as_aborted, as_subs, ablog, nabort, reg, sl_entry, narm>>
    /\ UNCHANGED nonSleepVars

\* abort_source::request_abort: the first call invokes the callbacks of the live
\* subscriptions in registration order and empties the list; a later call does nothing.
RequestAbort ==
    /\ nabort < MaxAborts
    /\ nabort' = nabort + 1
    /\ IF as_aborted
       THEN UNCHANGED <<as_aborted, as_subs, ablog, sl_pc, tmr_armed, done, nres>>
       ELSE LET hit == {s \in Members(as_subs) : AbortCallbackSets(tmr_armed[s])}
            IN  /\ as_aborted' = TRUE
                /\ ablog' = ablog \o as_subs
                /\ as_subs' = <<>>
                /\ tmr_armed' = [s \in Sleepers |->
                                    IF s \in Members(as_subs) THEN FALSE ELSE tmr_armed[s]]
                /\ done' = [s \in Sleepers |->
                               IF s \in hit THEN Failed(SleepAbortedError) ELSE done[s]]
                /\ nres' = [s \in Sleepers |-> IF s \in hit THEN nres[s] + 1 ELSE nres[s]]
                /\ sl_pc' = [s \in Sleepers |->
                                IF s \in hit /\ sl_pc[s] = "sleeping" THEN "finally_sched"
                                ELSE sl_pc[s]]
    /\ UNCHANGED <<reg, sl_entry, ncb, narm>>
    /\ UNCHANGED nonSleepVars

\* The finally() continuation of sleeper s runs and is destroyed with the sleeper.
SleeperFinallyTask(s) ==
    /\ sl_pc[s] = "finally_sched"
    /\ sl_pc' = [sl_pc EXCEPT ![s] = "finished"]
    /\ as_subs' = SleeperDestroyed(as_subs, s)
    /\ tmr_armed' = [tmr_armed EXCEPT ![s] = FALSE]
    /\ UNCHANGED <<as_aborted, ablog, nabort, reg, sl_entry, done, nres, ncb, narm>>
    /\ UNCHANGED nonSleepVars

InitSleepSpec == InitSleep /\ IdleLoop /\ IdleMcfe /\ IdleDoWith /\ IdleWithLock /\ IdleClients /\ IdleGate /\ IdlePlain /\ IdleDefer /\ IdleClose /\ IdleSched /\ IdleRename /\ IdleRemove /\ IdleInject /\ IdleMoveGate /\ IdleTmp /\ IdleLog

NextSleep ==
    \/ \E s \in Sleepers : SleepAbortable(s)
    \/ \E s \in Sleepers : SleeperTimerFires(s)
    \/ RequestAbort
    \/ \E s \in Sleepers : SleeperFinallyTask(s)

SpecSleep == InitSleepSpec /\ [][NextSleep]_vars

\* ---- sleep_abortable(dur): sleep until the engine stops ---------------------------------------

InitPlain ==
    /\ ps_pc = [w \in PlainSleeps |-> "none"]
    /\ ps_f0 = [w \in PlainSleeps |-> NoFuture]
    /\ ps_f1 = [w \in PlainSleeps |-> NoFuture]
    /\ ps_res = [w \in PlainSleeps |-> NoFuture]

\* how engine().wait_for_stop(dur) can end: the engine stops, or the wait fails
WaitForStopResults == {Value(0), Failed(CvTimedOutError), Failed(BrokenCvError)}

\* .then([] { throw sleep_aborted(); }): a failure passes through
ThenThrow(f) == IF failed(f) THEN f ELSE Failed(SleepAbortedError)

\* variant: the handler catches every exception
Swallowed_All(e) == TRUE

\* the handler rethrows ep and catches condition_variable_timed_out only
Swallowed(e) == e = CvTimedOutError

\* .handle_exception(handler): a value passes through, an exception that leaves
\* the handler fails the result
HandleException(f) ==
    IF failed(f) THEN (IF Swallowed(f.v) THEN Value(0) ELSE f) ELSE f

\* sleep_abortable(dur) by caller w: then() and handle_exception() run at once on
\* an available future when no preemption is needed.
SleepPlain(w) ==
    /\ ps_pc[w] = "none"
    /\ \E f0 \in WaitForStopResults \cup {Pending}, np1 \in BOOLEAN, np2 \in BOOLEAN :
        /\ ~available(f0) => ~np1
        /\ (~available(f0) \/ np1) => ~np2
        /\ ps_f0' = [ps_f0 EXCEPT ![w] = f0]
        /\ IF available(f0) /\ ~np1
           THEN /\ ps_f1' = [ps_f1 EXCEPT ![w] = ThenThrow(f0)]
                /\ IF np2
                   THEN /\ ps_pc' = [ps_pc EXCEPT ![w] = "handle_sched"]
                        /\ ps_res' = [ps_res EXCEPT ![w] = Pending]
                   ELSE /\ ps_pc' = [ps_pc EXCEPT ![w] = "done"]
                        /\ ps_res' = [ps_res EXCEPT ![w] = HandleException(ThenThrow(f0))]
           ELSE /\ ps_f1' = [ps_f1 EXCEPT ![w] = Pending]
                /\ ps_res' = [ps_res EXCEPT ![w] = Pending]
                /\ ps_pc' = [ps_pc EXCEPT ![w] = IF available(f0) THEN "then_sched" ELSE "wait"]
    /\ UNCHANGED nonPlainVars

\* The wait of caller w ends.
WaitForStopResolves(w) ==
    /\ ps_pc[w] = "wait"
    /\ \E f0 \in WaitForStopResults : ps_f0' = [ps_f0 EXCEPT ![w] = f0]
    /\ ps_pc' = [ps_pc EXCEPT ![w] = "then_sched"]
    /\ UNCHANGED <<ps_f1, ps_res>>
    /\ UNCHANGED nonPlainVars

\* The continuation of then() runs for caller w.
PlainThenTask(w) ==
    /\ ps_pc[w] = "then_sched"
    /\ ps_f1' = [ps_f1 EXCEPT ![w] = ThenThrow(ps_f0[w])]
    /\ ps_pc' = [ps_pc EXCEPT ![w] = "handle_sched"]
    /\ UNCHANGED <<ps_f0, ps_res>>
    /\ UNCHANGED nonPlainVars

\* The continuation of handle_exception() runs for caller w.
PlainHandleTask(w) ==
    /\ ps_pc[w] = "handle_sched"
    /\ ps_res' = [ps_res EXCEPT ![w] = HandleException(ps_f1[w])]
    /\ ps_pc' = [ps_pc EXCEPT ![w] = "done"]
    /\ UNCHANGED <<ps_f0, ps_f1>>
    /\ UNCHANGED nonPlainVars

InitPlainSpec == InitPlain /\ IdleLoop /\ IdleMcfe /\ IdleDoWith /\ IdleWithLock /\ IdleClients /\ IdleGate /\ IdleSleep /\ IdleDefer /\ IdleClose /\ IdleSched /\ IdleRename /\ IdleRemove /\ IdleInject /\ IdleMoveGate /\ IdleTmp /\ IdleLog

NextPlain ==
    \/ \E w \in PlainSleeps : SleepPlain(w)
    \/ \E w \in PlainSleeps : WaitForStopResolves(w)
    \/ \E w \in PlainSleeps : PlainThenTask(w)
    \/ \E w \in PlainSleeps : PlainHandleTask(w)

SpecPlain == InitPlainSpec /\ [][NextPlain]_vars

\* ---- deferred_action ---------------------------------------------------------------------------

\* a place that holds no object
NoObj == [live |-> FALSE, func |-> 0, cancelled |-> FALSE]

InitDefer ==
    /\ d_obj = [o \in Objs |-> NoObj]
    /\ d_ninv = [f \in Funcs |-> 0]
    /\ d_holder = [f \in Funcs |-> 0]
    /\ d_ended = [f \in Funcs |-> FALSE]
    /\ d_usercan = [f \in Funcs |-> FALSE]
    /\ d_nf = 0
    /\ d_self = FALSE

\* variant: the move constructor leaves the source as it was
MovedFrom_NotCancelled(src) == src

\* the source of the move constructor afterwards: o._cancelled = true
MovedFrom(src) == [src EXCEPT !.cancelled = TRUE]

\* the move constructor: _func(std::move(o._func)), _cancelled(o._cancelled)
MovedTo(src) == [live |-> TRUE, func |-> src.func, cancelled |-> src.cancelled]

\* ~deferred_action on the object x: the invocation counts afterwards
Destructor(x, ninv) ==
    IF ~x.cancelled THEN [ninv EXCEPT ![x.func] = @ + 1] ELSE ninv

\* the actions whose place is o
HeldAt(o) == {f \in Funcs : d_holder[f] = o /\ ~d_ended[f]}

\* defer(func) puts the action of a new function at the free place o
Defer(o) ==
    /\ ~d_obj[o].live
    /\ d_nf < MaxDefers
    /\ d_nf' = d_nf + 1
    /\ d_self' = FALSE
    /\ d_obj' = [d_obj EXCEPT ![o] = [live |-> TRUE, func |-> d_nf + 1, cancelled |-> FALSE]]
    /\ d_holder' = [d_holder EXCEPT ![d_nf + 1] = o]
    /\ UNCHANGED <<d_ninv, d_ended, d_usercan>>
    /\ UNCHANGED nonDeferVars

\* deferred_action(deferred_action&& o): the object at p is moved to the free place o
DeferMoveConstruct(o, p) ==
    /\ ~d_obj[o].live
    /\ d_obj[p].live
    /\ d_obj' = [d_obj EXCEPT ![o] = MovedTo(d_obj[p]), ![p] = MovedFrom(d_obj[p])]
    /\ d_holder' = [f \in Funcs |-> IF f \in HeldAt(p) THEN o ELSE d_holder[f]]
    /\ d_self' = FALSE
    /\ UNCHANGED <<d_ninv, d_ended, d_usercan, d_nf>>
    /\ UNCHANGED nonDeferVars

\* variant: operator= does not look whether it is given its own object
SelfAssignment_NotChecked(o, p) == FALSE

\* if (this != &o): the object is assigned to itself
SelfAssignment(o, p) == o = p

\* operator=(deferred_action&& o): unless it is the same object, the object at o
\* is destroyed and a new one is move-constructed in its place from the one at p
DeferMoveAssign(o, p) ==
    /\ d_obj[o].live
    /\ d_obj[p].live
    /\ d_self' = (o = p)
    /\ IF SelfAssignment(o, p)
       THEN UNCHANGED <<d_obj, d_ninv, d_holder, d_ended>>
       ELSE /\ d_ninv' = Destructor(d_obj[o], d_ninv)
            /\ d_obj' = [d_obj EXCEPT ![o] = MovedTo(d_obj[p]), ![p] = MovedFrom(d_obj[p])]
            /\ d_ended' = [f \in Funcs |-> d_ended[f] \/ f \in HeldAt(o)]
            /\ d_holder' = [f \in Funcs |-> IF f \in HeldAt(p) THEN o ELSE d_holder[f]]
    /\ UNCHANGED <<d_usercan, d_nf>>
    /\ UNCHANGED nonDeferVars

\* cancel() on the object at o
DeferCancel(o) ==
    /\ d_obj[o].live
    /\ d_obj' = [d_obj EXCEPT ![o].cancelled = TRUE]
    /\ d_usercan' = [f \in Funcs |-> d_usercan[f] \/ f \in HeldAt(o)]
    /\ d_self' = FALSE
    /\ UNCHANGED <<d_ninv, d_holder, d_ended, d_nf>>
    /\ UNCHANGED nonDeferVars

\* The object at o goes out of scope: ~deferred_action
DeferDestroy(o) ==
    /\ d_obj[o].live
    /\ d_ninv' = Destructor(d_obj[o], d_ninv)
    /\ d_obj' = [d_obj EXCEPT ![o] = NoObj]
    /\ d_ended' = [f \in Funcs |-> d_ended[f] \/ f \in HeldAt(o)]
    /\ d_self' = FALSE
    /\ UNCHANGED <<d_holder, d_usercan, d_nf>>
    /\ UNCHANGED nonDeferVars

InitDeferSpec == InitDefer /\ IdleLoop /\ IdleMcfe /\ IdleDoWith /\ IdleWithLock /\ IdleClients /\ IdleGate /\ IdleSleep /\ IdlePlain /\ IdleClose /\ IdleSched /\ IdleRename /\ IdleRemove /\ IdleInject /\ IdleMoveGate /\ IdleTmp /\ IdleLog

NextDefer ==
    \/ \E o \in Objs : Defer(o)
    \/ \E o \in Objs, p \in Objs : DeferMoveConstruct(o, p)
    \/ \E o \in Objs, p \in Objs : DeferMoveAssign(o, p)
    \/ \E o \in Objs : DeferCancel(o)
    \/ \E o \in Objs : DeferDestroy(o)

SpecDefer == InitDeferSpec /\ [][NextDefer]_vars

\* ---- close_controller and stop_controller ----------------------------------------------------

InitClose ==
    /\ cc_pc = [c \in Controllers |-> "none"]
    /\ cc_kind = [c \in Controllers |-> "none"]
    /\ cc_closed = [c \in Controllers |-> FALSE]
    /\ cc_fut = [c \in Controllers |-> NoFuture]
    /\ cc_ncalls = [c \in Controllers |-> 0]
    /\ cc_by = [c \in Controllers |-> "none"]
    /\ cc_nnow = [c \in Controllers |-> 0]

\* the process runs: no assertion failed and no exception left a noexcept function
CloseRunning == \A c \in Controllers : cc_pc[c] \notin {"aborted", "terminated"}

\* variant: do_close calls close() whatever the flag says
DoCloseCalls_Always(closed) == TRUE

\* do_close / do_stop: if (!_closed) { _closed = true; _obj.close().get(); }
DoCloseCalls(closed) == ~closed

\* do_close by controller c on behalf of who ("now" or "dtor"): after holds the
\* position when the call is over. get() returns at once on a value, blocks the
\* thread on a pending future and throws the exception of a failed one, which
\* terminates as do_close is noexcept.
DoClose(c, who, after) ==
    IF DoCloseCalls(cc_closed[c])
    THEN /\ cc_closed' = [cc_closed EXCEPT ![c] = TRUE]
         /\ cc_ncalls' = [cc_ncalls EXCEPT ![c] = @ + 1]
         /\ cc_by' = [cc_by EXCEPT ![c] = who]
         /\ \E f \in {Value(0), Failed(c), Pending} :
              /\ cc_fut' = [cc_fut EXCEPT ![c] = f]
              /\ cc_pc' = [cc_pc EXCEPT ![c] = IF f = Pending THEN "wait_" \o who
                                               ELSE IF failed(f) THEN "terminated"
                                               ELSE after]
    ELSE /\ cc_pc' = [cc_pc EXCEPT ![c] = after]
         /\ UNCHANGED <<cc_closed, cc_ncalls, cc_by, cc_fut>>

\* deferred_close(obj) / deferred_stop(obj): a controller on obj
DeferredClose(c) ==
    /\ CloseRunning
    /\ cc_pc[c] = "none"
    /\ cc_pc' = [cc_pc EXCEPT ![c] = "live"]
    /\ \E k \in {"close", "stop"} : cc_kind' = [cc_kind EXCEPT ![c] = k]
    /\ UNCHANGED <<cc_closed, cc_fut, cc_ncalls, cc_by, cc_nnow>>
    /\ UNCHANGED nonCloseVars

\* close_now() / stop_now(): assert(!_closed); do_close(). A build without
\* assertions goes on to do_close.
CloseNow(c) ==
    /\ CloseRunning
    /\ cc_pc[c] = "live"
    /\ cc_nnow[c] < MaxNow
    /\ cc_nnow' = [cc_nnow EXCEPT ![c] = @ + 1]
    /\ \/ /\ cc_closed[c]
          /\ cc_pc' = [cc_pc EXCEPT ![c] = "aborted"]
          /\ UNCHANGED <<cc_closed, cc_ncalls, cc_by, cc_fut>>
       \/ DoClose(c, "now", "live")
    /\ UNCHANGED cc_kind
    /\ UNCHANGED nonCloseVars

\* ~close_controller / ~stop_controller: do_close()
CloseDestroy(c) ==
    /\ CloseRunning
    /\ cc_pc[c] = "live"
    /\ DoClose(c, "dtor", "destroyed")
    /\ UNCHANGED <<cc_kind, cc_nnow>>
    /\ UNCHANGED nonCloseVars

\* The future that controller c waits for in get() resolves.
CloseFutureResolves(c) ==
    /\ CloseRunning
    /\ cc_pc[c] \in {"wait_now", "wait_dtor"}
    /\ \E ok \in BOOLEAN :
         /\ cc_fut' = [cc_fut EXCEPT ![c] = IF ok THEN Value(0) ELSE Failed(c)]
         /\ cc_pc' = [cc_pc EXCEPT ![c] = IF ~ok THEN "terminated"
                                          ELSE IF cc_pc[c] = "wait_now" THEN "live"
                                          ELSE "destroyed"]
    /\ UNCHANGED <<cc_kind, cc_closed, cc_ncalls, cc_by, cc_nnow>>
    /\ UNCHANGED nonCloseVars

InitCloseSpec == InitClose /\ IdleLoop /\ IdleMcfe /\ IdleDoWith /\ IdleWithLock /\ IdleClients /\ IdleGate /\ IdleSleep /\ IdlePlain /\ IdleDefer /\ IdleSched /\ IdleRename /\ IdleRemove /\ IdleInject /\ IdleMoveGate /\ IdleTmp /\ IdleLog

NextClose ==
    \/ \E c \in Controllers : DeferredClose(c)
    \/ \E c \in Controllers : CloseNow(c)
    \/ \E c \in Controllers : CloseDestroy(c)
    \/ \E c \in Controllers : CloseFutureResolves(c)

SpecClose == InitCloseSpec /\ [][NextClose]_vars

\* ---- tasks and scheduling groups -------------------------------------------------------------

\* the default scheduling group, current when the program starts
MainGroup == 1

InitSched ==
    /\ sg_cur = MainGroup
    /\ sg_tq = [g \in Groups |-> <<>>]
    /\ sg_pc = [t \in Tasks |-> "none"]
    /\ sg_tag = [t \in Tasks |-> 0]
    /\ sg_explicit = [t \in Tasks |-> FALSE]
    /\ sg_born = [t \in Tasks |-> 0]
    /\ sg_res = [t \in Tasks |-> 0]
    /\ sg_ran = [t \in Tasks |-> 0]

\* variant: a task takes the default group when none is given
DefaultGroup_Main(cur) == MainGroup

\* explicit task(scheduling_group sg = current_scheduling_group()): the group of a
\* task constructed without one
DefaultGroup(cur) == cur

\* schedule(task): the task goes to the back of the queue of its group
Schedule(tq, t, g) == [tq EXCEPT ![g] = Append(@, t)]

\* A continuation t is attached to a pending future: a task constructed without
\* a group.
SchedThen(t) ==
    /\ sg_pc[t] = "none"
    /\ sg_pc' = [sg_pc EXCEPT ![t] = "waiting"]
    /\ sg_tag' = [sg_tag EXCEPT ![t] = DefaultGroup(sg_cur)]
    /\ sg_born' = [sg_born EXCEPT ![t] = sg_cur]
    /\ UNCHANGED <<sg_cur, sg_tq, sg_explicit, sg_res, sg_ran>>
    /\ UNCHANGED nonSchedVars

\* The future that continuation t waits for resolves: t is scheduled.
SchedFutureResolves(t) ==
    /\ sg_pc[t] = "waiting"
    /\ sg_pc' = [sg_pc EXCEPT ![t] = "queued"]
    /\ sg_res' = [sg_res EXCEPT ![t] = sg_cur]
    /\ sg_tq' = Schedule(sg_tq, t, sg_tag[t])
    /\ UNCHANGED <<sg_cur, sg_tag, sg_explicit, sg_born, sg_ran>>
    /\ UNCHANGED nonSchedVars

\* schedule(make_task(func)): lambda_task(current_scheduling_group(), func)
SchedMakeTask(t) ==
    /\ sg_pc[t] = "none"
    /\ sg_pc' = [sg_pc EXCEPT ![t] = "queued"]
    /\ sg_tag' = [sg_tag EXCEPT ![t] = sg_cur]
    /\ sg_born' = [sg_born EXCEPT ![t] = sg_cur]
    /\ sg_res' = [sg_res EXCEPT ![t] = sg_cur]
    /\ sg_tq' = Schedule(sg_tq, t, sg_cur)
    /\ UNCHANGED <<sg_cur, sg_explicit, sg_ran>>
    /\ UNCHANGED nonSchedVars

\* schedule(make_task(sg, func)): lambda_task(sg, func), as with_scheduling_group
\* does to enter sg from another group
SchedMakeTaskIn(t, sg) ==
    /\ sg_pc[t] = "none"
    /\ sg_pc' = [sg_pc EXCEPT ![t] = "queued"]
    /\ sg_tag' = [sg_tag EXCEPT ![t] = sg]
    /\ sg_explicit' = [sg_explicit EXCEPT ![t] = TRUE]
    /\ sg_born' = [sg_born EXCEPT ![t] = sg_cur]
    /\ sg_res' = [sg_res EXCEPT ![t] = sg_cur]
    /\ sg_tq' = Schedule(sg_tq, t, sg)
    /\ UNCHANGED <<sg_cur, sg_ran>>
    /\ UNCHANGED nonSchedVars

\* The executor takes the first task of the queue of group g, makes g the
\* current group and runs the task.
SchedRunTask(g) ==
    /\ sg_tq[g] # <<>>
    /\ sg_cur' = g
    /\ sg_tq' = [sg_tq EXCEPT ![g] = Tail(@)]
    /\ sg_pc' = [sg_pc EXCEPT ![Head(sg_tq[g])] = "done"]
    /\ sg_ran' = [sg_ran EXCEPT ![Head(sg_tq[g])] = g]
    /\ UNCHANGED <<sg_tag, sg_explicit, sg_born, sg_res>>
    /\ UNCHANGED nonSchedVars

InitSchedSpec == InitSched /\ IdleLoop /\ IdleMcfe /\ IdleDoWith /\ IdleWithLock /\ IdleClients /\ IdleGate /\ IdleSleep /\ IdlePlain /\ IdleClose /\ IdleDefer /\ IdleRename /\ IdleRemove /\ IdleInject /\ IdleMoveGate /\ IdleTmp /\ IdleLog

NextSched ==
    \/ \E t \in Tasks : SchedThen(t)
    \/ \E t \in Tasks : SchedFutureResolves(t)
    \/ \E t \in Tasks : SchedMakeTask(t)
    \/ \E t \in Tasks, sg \in Groups : SchedMakeTaskIn(t, sg)
    \/ \E g \in Groups : SchedRunTask(g)

SpecSched == InitSchedSpec /\ [][NextSched]_vars

\* ---- do_for_each and max_concurrent_for_each with max_concurrent == 1, side by side -----------

\* One range is given to do_for_each and then, once that call has its result, to
\* max_concurrent_for_each with max_concurrent == 1.
InitEquivSpec == InitDoForEach /\ len <= MaxEquivLen /\ InitMcfe /\ s_end = len /\ s_max = 1 /\ IdleDoWith /\ IdleWithLock /\ IdleClients /\ IdleGate /\ IdleSleep /\ IdlePlain /\ IdleDefer /\ IdleClose /\ IdleSched /\ IdleRename /\ IdleRemove /\ IdleInject /\ IdleMoveGate /\ IdleTmp /\ IdleLog

NextEquiv ==
    \/ DoForEachImpl
    \/ DoForEachRun
    \/ DoForEachIter
    \/ ResolveActionFuture
    \/ available(promise) /\ NextMcfe

SpecEquiv == InitEquivSpec /\ [][NextEquiv]_vars

\* ---- rename_file_ext ----------------------------------------------------------------------------

\* enum class allow_overwrite
AllowOverwrite == {"never", "always", "if_same", "if_not_same"}

\* the error codes of the system calls and of rename_file_ext
ENOENT == "ENOENT"
EEXIST == "EEXIST"
ENOTDIR == "ENOTDIR"
EISDIR == "EISDIR"
ENOTEMPTY == "ENOTEMPTY"

\* stat_data, as far as rename_file_ext reads it (one device)
StatData(i) == [inode_number |-> i, type |-> rn_type[i]]

\* Any two paths and any flag; a directory has one name only.
InitRename ==
    /\ rn_old \in 0..MaxInodes
    /\ rn_new \in 0..MaxInodes
    /\ rn_type \in [Inodes -> {"regular", "directory"}]
    /\ (rn_old = rn_new /\ rn_old # 0) => rn_type[rn_old] = "regular"
    /\ rn_flag \in AllowOverwrite
    /\ rn_pc = "call"
    /\ rn_sd1 = <<>>
    /\ rn_sd2 = <<>>
    /\ rn_res = NoFuture
    /\ rn_old0 = rn_old
    /\ rn_new0 = rn_new

is_same_file(sd1, sd2) == sd1.inode_number = sd2.inode_number

\* int error of the continuation of rename_file_ext, "0" for no error
RenameError(sd1, sd2, flag) ==
    IF sd1.type = "directory"
    THEN IF sd2.type # "directory" THEN ENOTDIR ELSE "0"
    ELSE IF sd2.type = "directory" THEN EISDIR
    ELSE IF flag = "never" \/ (flag = "if_same" /\ ~is_same_file(sd1, sd2)) THEN EEXIST
    ELSE "0"

\* stat_files(oldpath, newpath): both paths are stat'ed without following symbolic
\* links; the call fails when one of them does not exist.
StatFiles ==
    /\ rn_pc = "call"
    /\ IF rn_old = 0 \/ rn_new = 0
       THEN /\ rn_res' = Failed(ENOENT)
            /\ rn_pc' = "done"
            /\ UNCHANGED <<rn_sd1, rn_sd2>>
       ELSE /\ rn_sd1' = StatData(rn_old)
            /\ rn_sd2' = StatData(rn_new)
            /\ rn_res' = Pending
            /\ rn_pc' = "then"
    /\ UNCHANGED <<rn_old, rn_new, rn_type, rn_flag, rn_old0, rn_new0>>
    /\ UNCHANGED nonRenameVars

\* The continuation of rename_file_ext: fail with error, or remove oldpath when both
\* paths name one file, or rename.  rename(2) replaces newpath; a directory replaces
\* an empty directory only.
RenameFileExtThen ==
    /\ rn_pc = "then"
    /\ rn_pc' = "done"
    /\ LET error == RenameError(rn_sd1, rn_sd2, rn_flag)
       IN  IF error # "0"
           THEN \* make_exception_future<>(make_filesystem_error("rename failed", ...))
                /\ rn_res' = Failed(error)
                /\ UNCHANGED <<rn_old, rn_new>>
           ELSE IF is_same_file(rn_sd1, rn_sd2)
           THEN \* remove_file(oldpath)
                /\ rn_old' = 0
                /\ rn_res' = Value(0)
                /\ UNCHANGED rn_new
           ELSE \* rename_file(oldpath, newpath)
                \E empty \in BOOLEAN :
                    IF rn_sd2.type = "directory" /\ ~empty
                    THEN /\ rn_res' = Failed(ENOTEMPTY)
                         /\ UNCHANGED <<rn_old, rn_new>>
                    ELSE /\ rn_new' = rn_old
                         /\ rn_old' = 0
                         /\ rn_res' = Value(0)
    /\ UNCHANGED <<rn_type, rn_flag, rn_sd1, rn_sd2, rn_old0, rn_new0>>
    /\ UNCHANGED nonRenameVars

InitRenameSpec == InitRename /\ IdleLoop /\ IdleMcfe /\ IdleDoWith /\ IdleWithLock /\ IdleClients /\ IdleGate /\ IdleSleep /\ IdlePlain /\ IdleClose /\ IdleSched /\ IdleDefer /\ IdleRemove /\ IdleInject /\ IdleMoveGate /\ IdleTmp /\ IdleLog

NextRename ==
    \/ StatFiles
    \/ RenameFileExtThen

SpecRename == InitRenameSpec /\ [][NextRename]_vars

\* ---- recursive_remove_directory -----------------------------------------------------------------

\* A tree rooted at path (node 1): every node but path lies in a directory of the
\* tree that exists, and only directories hold entries.
InitRemove ==
    /\ rr_parent \in [Nodes -> 0..MaxNodes]
    /\ rr_isdir \in [Nodes -> BOOLEAN]
    /\ rr_exists \in SUBSET Nodes
    /\ 1 \in rr_exists
    /\ rr_isdir[1]
    /\ \A n \in Nodes :
        /\ n = 1 => rr_parent[n] = 0
        /\ n > 1 => rr_parent[n] \in 1..(n - 1) /\ rr_isdir[rr_parent[n]]
        /\ (n > 1 /\ n \in rr_exists) => rr_parent[n] \in rr_exists
        /\ n \notin rr_exists => rr_parent[n] = (IF n = 1 THEN 0 ELSE 1) /\ ~rr_isdir[n]
    /\ rr_wq = <<>>
    /\ rr_pc = "call"
    /\ rr_res = NoFuture
    /\ rr_log = <<>>
    /\ rr_exists0 = rr_exists

\* one file operation, issued on node n (0: the parent directory of path)
FileOp(op, n, ok) == [op |-> op, n |-> n, ok |-> ok]

\* the error of the operation logged at position i
FileOpError(i) == i

\* the entries of directory n that are on disk
Entries(n) == {c \in rr_exists : rr_parent[c] = n}

\* the order in which list_directory reports a set of entries
RECURSIVE Listing(_)
Listing(S) ==
    IF S = {} THEN <<>>
    ELSE LET c == CHOOSE x \in S : \A y \in S : x <= y
         IN  <<c>> \o Listing(S \ {c})

\* the work entries that the list_directory callback adds for a listing
ListedEntries(l) == [j \in 1..Len(l) |-> [n |-> l[j], listed |-> ~rr_isdir[l[j]]]]

\* variant: the work queue is served from its front
WorkQueuePop_Front(wq) == [ent |-> Head(wq), rest |-> Tail(wq)]

\* auto ent = work_queue.back(); work_queue.pop_back()
WorkQueuePop(wq) == [ent |-> wq[Len(wq)], rest |-> SubSeq(wq, 1, Len(wq) - 1)]

\* the operations after which recursive_remove_directory goes on: the last one
\* succeeded; otherwise the future of the call fails with its error
Continue(l, pcnext) ==
    /\ rr_log' = rr_log \o l
    /\ IF l[Len(l)].ok
       THEN rr_pc' = pcnext /\ UNCHANGED rr_res
       ELSE rr_pc' = "done" /\ rr_res' = Failed(FileOpError(Len(rr_log) + Len(l)))

\* recursive_remove_directory: open_directory(path / ".."), then the work queue of
\* do_recursive_remove_directory is created with path in it.
RecursiveRemoveDirectory ==
    /\ rr_pc = "call"
    /\ \E ok \in BOOLEAN :
        /\ Continue(<<FileOp("open_parent", 0, ok)>>, "loop")
        /\ rr_wq' = IF ok THEN <<[n |-> 1, listed |-> FALSE]>> ELSE <<>>
    /\ UNCHANGED <<rr_parent, rr_isdir, rr_exists, rr_exists0>>
    /\ UNCHANGED nonRemoveVars

\* One iteration of do_until in do_recursive_remove_directory: the action up to the
\* resolution of its future.  remove_file fails on a directory that has entries.
DoRecursiveRemoveIter ==
    /\ rr_pc = "loop"
    /\ rr_wq # <<>>
    /\ LET p == WorkQueuePop(rr_wq)
           n == p.ent.n
       IN  IF p.ent.listed
           THEN \* remove_file(ent.path.native())
                \E ok \in BOOLEAN :
                    /\ Entries(n) # {} => ~ok
                    /\ Continue(<<FileOp("remove", n, ok)>>, "loop")
                    /\ rr_exists' = IF ok THEN rr_exists \ {n} ELSE rr_exists
                    /\ rr_wq' = p.rest
           ELSE \* work_queue.emplace_back(ent.path, true); open, list and close the directory
                \E failing \in {"none", "open", "list", "close"} :
                    /\ n \notin rr_exists => failing = "open"
                    /\ Continue(CASE failing = "open" -> <<FileOp("open", n, FALSE)>>
                                  [] failing = "list" -> <<FileOp("open", n, TRUE), FileOp("list", n, FALSE)>>
                                  [] OTHER -> <<FileOp("open", n, TRUE), FileOp("list", n, TRUE),
                                                FileOp("close", n, failing = "none")>>,
                                "loop")
                    /\ rr_wq' = Append(p.rest, [n |-> n, listed |-> TRUE])
                                \o (IF failing \in {"none", "close"}
                                    THEN ListedEntries(Listing(Entries(n))) ELSE <<>>)
                    /\ UNCHANGED rr_exists
    /\ UNCHANGED <<rr_parent, rr_isdir, rr_exists0>>
    /\ UNCHANGED nonRemoveVars

\* work_queue.empty() ends do_until; the continuation calls parent.flush().
ParentFlush ==
    /\ rr_pc = "loop"
    /\ rr_wq = <<>>
    /\ \E ok \in BOOLEAN : Continue(<<FileOp("flush", 0, ok)>>, "close")
    /\ UNCHANGED <<rr_parent, rr_isdir, rr_exists, rr_wq, rr_exists0>>
    /\ UNCHANGED nonRemoveVars

\* parent.close() resolves the future of the call.
ParentClose ==
    /\ rr_pc = "close"
    /\ \E ok \in BOOLEAN :
        /\ rr_log' = Append(rr_log, FileOp("close_parent", 0, ok))
        /\ rr_res' = IF ok THEN Value(0) ELSE Failed(FileOpError(Len(rr_log) + 1))
    /\ rr_pc' = "done"
    /\ UNCHANGED <<rr_parent, rr_isdir, rr_exists, rr_wq, rr_exists0>>
    /\ UNCHANGED nonRemoveVars

InitRemoveSpec == InitRemove /\ IdleLoop /\ IdleMcfe /\ IdleDoWith /\ IdleWithLock /\ IdleClients /\ IdleGate /\ IdleSleep /\ IdlePlain /\ IdleClose /\ IdleSched /\ IdleRename /\ IdleDefer /\ IdleInject /\ IdleMoveGate /\ IdleTmp /\ IdleLog

NextRemove ==
    \/ RecursiveRemoveDirectory
    \/ DoRecursiveRemoveIter
    \/ ParentFlush
    \/ ParentClose

SpecRemove == InitRemoveSpec /\ [][NextRemove]_vars

\* ---- filesystem error injector ------------------------------------------------------------------

\* std::numeric_limits<uint64_t>::max(), at the width of the model
Uint64Max == 2 ^ CountBits - 1

\* the arguments given to fail_after
CountArgs == 0..MaxCountArg \cup {Uint64Max - 1, Uint64Max}
HowLongArgs == 0..MaxHowLong \cup {Uint64Max}

\* An injector right after its construction: it is registered for the type of the
\* system calls of the model, _count is 0, and the constructor leaves _fail_at and
\* _fail_until without a value.
InitInject ==
    /\ fi_error = "EIO"
    /\ fi_count = 0
    /\ fi_fail_at \in {0, Uint64Max}
    /\ fi_fail_until \in {0, Uint64Max}
    /\ fi_suppressed = 0
    /\ fi_nsys = 0
    /\ fi_last = <<>>
    /\ fi_hist = <<>>
    /\ fi_nest = 0
    /\ fi_arm = <<>>
    /\ fi_narm = 0
    /\ fi_cancel = FALSE

\* one system call; pred is the result of the injector's predicate on its arguments,
\* FALSE when the predicate is not called; guards is the number of live guards,
\* r = -1 when an error is injected
SyscallEvent(pred, guards, r, err) ==
    [pred |-> pred, guards |-> guards, ret |-> r, errno |-> err]

\* the last arming call: the window has n calls before it and is k calls long
Armed(n, k) == [n |-> n, k |-> k]

\* the injector's counters
InjectorState == <<fi_count, fi_fail_at, fi_fail_until>>

\* variant: the window has no end
InWindow_NoEnd(now, fail_at, fail_until) == now >= fail_at

\* now >= _fail_at && now < _fail_until
InWindow(now, fail_at, fail_until) == now >= fail_at /\ now < fail_until

\* variant: the manager does not look at _suppressed
Suppressed_Never(suppressed) == FALSE

\* if (_suppressed)
Suppressed(suppressed) == suppressed # 0

\* injector::cancel
CancelWindow ==
    /\ fi_fail_at' = Uint64Max
    /\ fi_fail_until' = Uint64Max

\* variant: the sums are computed in uint64_t
FailAfterWindow_Wraps(count, how_long) ==
    LET x == (fi_count + count) % (Uint64Max + 1)
    IN  IF x >= Uint64Max
        THEN CancelWindow
        ELSE /\ fi_fail_at' = x
             /\ fi_fail_until' = (x + how_long) % (Uint64Max + 1)

\* injector::fail_after(count, how_long); the sums are computed in __int128
FailAfterWindow(count, how_long) ==
    LET x == fi_count + count
    IN  IF x >= Uint64Max
        THEN CancelWindow
        ELSE /\ fi_fail_at' = x
             /\ fi_fail_until' = IF x + how_long <= Uint64Max THEN x + how_long ELSE Uint64Max

\* what an arming call leaves alone, and what it adds to the history, which starts
\* again
ArmHistory(n, k) ==
    /\ fi_narm < MaxArms
    /\ fi_narm' = fi_narm + 1
    /\ fi_arm' = Armed(n, k)
    /\ fi_hist' = <<>>
    /\ fi_nest' = 0
    /\ UNCHANGED <<fi_error, fi_count, fi_suppressed, fi_nsys, fi_last>>
    /\ UNCHANGED nonInjVars

FailAfter ==
    \E count \in CountArgs, how_long \in HowLongArgs :
        /\ FailAfterWindow(count, how_long)
        /\ ArmHistory(count, how_long)
        /\ fi_cancel' = FALSE

\* fail_once() is fail_for(1), which is fail_after(0, 1)
FailOnce ==
    /\ FailAfterWindow(0, 1)
    /\ ArmHistory(0, 1)
    /\ fi_cancel' = FALSE

Cancel ==
    /\ CancelWindow
    /\ ArmHistory(0, 0)
    /\ fi_cancel' = TRUE

\* what a system call adds to the history; in fi_hist the number of guards is
\* only 0 or 1
LogSyscall(e) ==
    /\ fi_last' = e
    /\ fi_hist' = IF e.guards > 0 \/ e.pred
                  THEN Append(fi_hist, [e EXCEPT !.guards = IF @ > 0 THEN 1 ELSE 0])
                  ELSE fi_hist
    /\ fi_nest' = IF e.guards > fi_nest THEN e.guards ELSE fi_nest

\* manager::on_syscall(type, ...), with injector::inject and the on_syscall overload
\* that takes the injector.
OnSyscall ==
    /\ fi_nsys < MaxSyscalls
    /\ fi_nsys' = fi_nsys + 1
    /\ \E pred \in BOOLEAN :
        IF Suppressed(fi_suppressed)
        THEN \* return std::nullopt, _func is not called
             /\ ~pred
             /\ LogSyscall(SyscallEvent(pred, fi_suppressed, 0, "none"))
             /\ UNCHANGED fi_count
        ELSE IF ~pred
        THEN \* if (!_func(path1, path2, flags)) return std::nullopt
             /\ LogSyscall(SyscallEvent(pred, fi_suppressed, 0, "none"))
             /\ UNCHANGED fi_count
        ELSE \* auto now = _count++
             /\ fi_count' = fi_count + 1
             /\ LogSyscall(IF InWindow(fi_count, fi_fail_at, fi_fail_until)
                           THEN SyscallEvent(pred, fi_suppressed, -1, fi_error)
                           ELSE SyscallEvent(pred, fi_suppressed, 0, "none"))
    /\ UNCHANGED <<fi_error, fi_fail_at, fi_fail_until, fi_suppressed, fi_arm, fi_narm, fi_cancel>>
    /\ UNCHANGED nonInjVars

\* disable_guard::disable_guard: manager::suppress
GuardCreate ==
    /\ fi_suppressed < MaxGuards
    /\ fi_suppressed' = fi_suppressed + 1
    /\ UNCHANGED <<fi_error, fi_count, fi_fail_at, fi_fail_until, fi_nsys, fi_last, fi_hist, fi_nest, fi_arm, fi_narm, fi_cancel>>
    /\ UNCHANGED nonInjVars

\* disable_guard::~disable_guard: manager::unsuppress
GuardDestroy ==
    /\ fi_suppressed > 0
    /\ fi_suppressed' = fi_suppressed - 1
    /\ UNCHANGED <<fi_error, fi_count, fi_fail_at, fi_fail_until, fi_nsys, fi_last, fi_hist, fi_nest, fi_arm, fi_narm, fi_cancel>>
    /\ UNCHANGED nonInjVars

InitInjectSpec == InitInject /\ IdleLoop /\ IdleMcfe /\ IdleDoWith /\ IdleWithLock /\ IdleClients /\ IdleGate /\ IdleSleep /\ IdlePlain /\ IdleClose /\ IdleSched /\ IdleRename /\ IdleRemove /\ IdleDefer /\ IdleMoveGate /\ IdleTmp /\ IdleLog

NextInject ==
    \/ FailAfter
    \/ FailOnce
    \/ Cancel
    \/ OnSyscall
    \/ GuardCreate
    \/ GuardDestroy

SpecInject == InitInjectSpec /\ [][NextInject]_vars

\* ---- gate: construction, move construction and destruction -------------------------------------

\* a place that holds no gate
NoGate == [live |-> FALSE, count |-> 0, stopped |-> "none"]

\* the operation op on the gate at g, with the gate at h as second operand or 0
GateOp(op, g, h) == [op |-> op, g |-> g, h |-> h]

InitMoveGate ==
    /\ mg_gate = [g \in Gates |-> NoGate]
    /\ mg_ent = [g \in Gates |-> 0]
    /\ mg_nent = 0
    /\ mg_dead = 0
    /\ mg_last = GateOp("none", 0, 0)

\* gate::gate() at the free place g
GateConstruct(g) ==
    /\ mg_dead = 0
    /\ ~mg_gate[g].live
    /\ mg_gate' = [mg_gate EXCEPT ![g] = [live |-> TRUE, count |-> 0, stopped |-> "none"]]
    /\ mg_last' = GateOp("construct", g, 0)
    /\ UNCHANGED <<mg_ent, mg_nent, mg_dead>>
    /\ UNCHANGED nonMgVars

\* variant: the move constructor leaves the count in the source
MovedFromCount_Kept(count) == count

\* o._count = 0
MovedFromCount(count) == 0

\* std::move(o._stopped): an engaged optional stays engaged, its promise is moved from
MovedFromStopped(stopped) == IF stopped = "none" THEN "none" ELSE "moved"

\* gate::gate(gate&& o): the gate at g is moved to the free place h
GateMoveConstruct(g, h) ==
    /\ mg_dead = 0
    /\ mg_gate[g].live
    /\ ~mg_gate[h].live
    /\ mg_gate' = [mg_gate EXCEPT
                      ![h] = [live |-> TRUE, count |-> mg_gate[g].count,
                              stopped |-> mg_gate[g].stopped],
                      ![g] = [live |-> TRUE, count |-> MovedFromCount(mg_gate[g].count),
                              stopped |-> MovedFromStopped(mg_gate[g].stopped)]]
    /\ mg_ent' = [mg_ent EXCEPT ![h] = mg_ent[g], ![g] = 0]
    /\ mg_last' = GateOp("move", g, h)
    /\ UNCHANGED <<mg_nent, mg_dead>>
    /\ UNCHANGED nonMgVars

\* gate::~gate(): assert(_count == 0)
GateDestroy(g) ==
    /\ mg_dead = 0
    /\ mg_gate[g].live
    /\ IF mg_gate[g].count = 0
       THEN /\ mg_gate' = [mg_gate EXCEPT ![g] = NoGate]
            /\ UNCHANGED mg_dead
       ELSE \* the assertion fails
            /\ mg_dead' = g
            /\ UNCHANGED mg_gate
    /\ mg_last' = GateOp("destroy", g, 0)
    /\ UNCHANGED <<mg_ent, mg_nent>>
    /\ UNCHANGED nonMgVars

\* enter() on the gate at g, which is not closed
MoveGateEnter(g) ==
    /\ mg_dead = 0
    /\ mg_gate[g].live
    /\ mg_gate[g].stopped = "none"
    /\ mg_nent < MaxEntries
    /\ mg_nent' = mg_nent + 1
    /\ mg_gate' = [mg_gate EXCEPT ![g].count = @ + 1]
    /\ mg_ent' = [mg_ent EXCEPT ![g] = @ + 1]
    /\ mg_last' = GateOp("enter", g, 0)
    /\ UNCHANGED mg_dead
    /\ UNCHANGED nonMgVars

\* leave() by an entry of the gate at g: the last one out resolves a pending close
MoveGateLeave(g) ==
    /\ mg_dead = 0
    /\ mg_gate[g].live
    /\ mg_ent[g] > 0
    /\ mg_gate' = [mg_gate EXCEPT
                      ![g].count = @ - 1,
                      ![g].stopped = IF mg_gate[g].count = 1 /\ @ = "pending"
                                     THEN "set" ELSE @]
    /\ mg_ent' = [mg_ent EXCEPT ![g] = @ - 1]
    /\ mg_last' = GateOp("leave", g, 0)
    /\ UNCHANGED <<mg_nent, mg_dead>>
    /\ UNCHANGED nonMgVars

\* close() on the gate at g, which is not closed
MoveGateClose(g) ==
    /\ mg_dead = 0
    /\ mg_gate[g].live
    /\ mg_gate[g].stopped = "none"
    /\ mg_gate' = [mg_gate EXCEPT
                      ![g].stopped = IF mg_gate[g].count = 0 THEN "set" ELSE "pending"]
    /\ mg_last' = GateOp("close", g, 0)
    /\ UNCHANGED <<mg_ent, mg_nent, mg_dead>>
    /\ UNCHANGED nonMgVars

InitMoveGateSpec == InitMoveGate /\ IdleLoop /\ IdleMcfe /\ IdleDoWith /\ IdleWithLock /\ IdleClients /\ IdleGate /\ IdleSleep /\ IdlePlain /\ IdleClose /\ IdleSched /\ IdleRename /\ IdleRemove /\ IdleInject /\ IdleDefer /\ IdleTmp /\ IdleLog

NextMoveGate ==
    \/ \E g \in Gates : GateConstruct(g)
    \/ \E g \in Gates, h \in Gates : GateMoveConstruct(g, h)
    \/ \E g \in Gates : GateDestroy(g)
    \/ \E g \in Gates : MoveGateEnter(g)
    \/ \E g \in Gates : MoveGateLeave(g)
    \/ \E g \in Gates : MoveGateClose(g)

SpecMoveGate == InitMoveGateSpec /\ [][NextMoveGate]_vars

\* ---- tmp_file::do_with and tmp_dir::do_with -----------------------------------------------------

\* do_with(tmp_file(), ...) / do_with(tmp_dir(), ...): the holder has a default
\* constructed object, the chain starts with open / create
InitTmp ==
    /\ tf_kind \in [Tmps -> {"file", "dir"}]
    /\ tf_pc = [t \in Tmps |-> "open"]
    /\ tf_opened = [t \in Tmps |-> FALSE]
    /\ tf_path = [t \in Tmps |-> FALSE]
    /\ tf_fail = [t \in Tmps |-> {}]

\* the step after open / create and after func: finally runs close for a file and
\* remove for a directory, whatever the result so far
FinallyStep(t) == IF tf_kind[t] = "file" THEN "close" ELSE "remove"

\* tmp_file::open / tmp_dir::create: the continuation that sets _path (and _file)
\* runs only when the file was opened / the directory was made
TmpOpen(t) ==
    /\ tf_pc[t] = "open"
    /\ \E ok \in BOOLEAN :
        /\ tf_opened' = [tf_opened EXCEPT ![t] = ok /\ tf_kind[t] = "file"]
        /\ tf_path' = [tf_path EXCEPT ![t] = ok]
        /\ tf_fail' = [tf_fail EXCEPT ![t] = IF ok THEN @ ELSE @ \cup {"open"}]
        /\ tf_pc' = [tf_pc EXCEPT ![t] = IF ok THEN "func" ELSE FinallyStep(t)]
    /\ UNCHANGED tf_kind
    /\ UNCHANGED nonTmpVars

\* func(f) / func(p) has returned and its future has resolved
TmpFunc(t) ==
    /\ tf_pc[t] = "func"
    /\ \E ok \in BOOLEAN :
        tf_fail' = [tf_fail EXCEPT ![t] = IF ok THEN @ ELSE @ \cup {"func"}]
    /\ tf_pc' = [tf_pc EXCEPT ![t] = FinallyStep(t)]
    /\ UNCHANGED <<tf_kind, tf_opened, tf_path>>
    /\ UNCHANGED nonTmpVars

\* tmp_file::close: nothing to do when not opened; else _file->close(), and the
\* continuation that resets _file runs only when that succeeded
TmpClose(t) ==
    /\ tf_pc[t] = "close"
    /\ IF ~tf_opened[t]
       THEN UNCHANGED <<tf_opened, tf_fail>>
       ELSE \E ok \in BOOLEAN :
            /\ tf_opened' = [tf_opened EXCEPT ![t] = ~ok]
            /\ tf_fail' = [tf_fail EXCEPT ![t] = IF ok THEN @ ELSE @ \cup {"close"}]
    /\ tf_pc' = [tf_pc EXCEPT ![t] = "remove"]
    /\ UNCHANGED <<tf_kind, tf_path>>
    /\ UNCHANGED nonTmpVars

\* tmp_file::remove / tmp_dir::remove: nothing to do without a path; else remove_file
\* / recursive_remove_directory, and the continuation that clears _path runs only
\* when that succeeded
TmpRemove(t) ==
    /\ tf_pc[t] = "remove"
    /\ IF ~tf_path[t]
       THEN UNCHANGED <<tf_path, tf_fail>>
       ELSE \E ok \in BOOLEAN :
            /\ tf_path' = [tf_path EXCEPT ![t] = ~ok]
            /\ tf_fail' = [tf_fail EXCEPT ![t] = IF ok THEN @ ELSE @ \cup {"remove"}]
    /\ tf_pc' = [tf_pc EXCEPT ![t] = "destroy"]
    /\ UNCHANGED <<tf_kind, tf_opened>>
    /\ UNCHANGED nonTmpVars

\* The chain has resolved and the holder of do_with is destroyed: ~tmp_file asserts
\* !opened() and !has_path(), ~tmp_dir asserts !has_path()
TmpDestroy(t) ==
    /\ tf_pc[t] = "destroy"
    /\ tf_pc' = [tf_pc EXCEPT ![t] = IF tf_opened[t] \/ tf_path[t] THEN "aborted"
                                      ELSE "done"]
    /\ UNCHANGED <<tf_kind, tf_opened, tf_path, tf_fail>>
    /\ UNCHANGED nonTmpVars

InitTmpSpec == InitTmp /\ IdleLoop /\ IdleMcfe /\ IdleDoWith /\ IdleWithLock /\ IdleClients /\ IdleGate /\ IdleSleep /\ IdlePlain /\ IdleClose /\ IdleSched /\ IdleRename /\ IdleRemove /\ IdleInject /\ IdleMoveGate /\ IdleDefer /\ IdleLog

NextTmp ==
    \/ \E t \in Tmps : TmpOpen(t)
    \/ \E t \in Tmps : TmpFunc(t)
    \/ \E t \in Tmps : TmpClose(t)
    \/ \E t \in Tmps : TmpRemove(t)
    \/ \E t \in Tmps : TmpDestroy(t)

SpecTmp == InitTmpSpec /\ [][NextTmp]_vars

\* ---- logger and logger_registry (log.cc) --------------------------------------------------------

LoggerOp(op, l, x, n, threw) == [op |-> op, l |-> l, x |-> x, n |-> n, threw |-> threw]

\* the registry is empty before the first logger is constructed
InitLog ==
    /\ lg_live = [l \in Loggers |-> FALSE]
    /\ lg_name = [l \in Loggers |-> ""]
    /\ lg_moved = [l \in Loggers |-> FALSE]
    /\ loggers = <<>>
    /\ lg_last = LoggerOp("none", 0, 0, "", FALSE)

\* basic_sstring(basic_sstring&& x): the value a moved-from string is left with
MovedFromName(s) == ""

\* logger_registry::register_logger: the name must not be registered yet
RegisterThrows(registry, n) == n \in DOMAIN registry
\* _loggers[n] = l
SetEntry(registry, n, l) == [k \in DOMAIN registry \cup {n} |-> IF k = n THEN l ELSE registry[k]]
\* _loggers.erase(n)
EraseEntry(registry, n) == [k \in DOMAIN registry \ {n} |-> registry[k]]

\* logger::logger(sstring name) at place l: register_logger(this); when it throws no
\* object is constructed
LoggerConstruct(l, n) ==
    /\ ~lg_live[l]
    /\ IF RegisterThrows(loggers, n)
       THEN /\ lg_last' = LoggerOp("construct", l, 0, n, TRUE)
            /\ UNCHANGED <<lg_live, lg_name, lg_moved, loggers>>
       ELSE /\ lg_live' = [lg_live EXCEPT ![l] = TRUE]
            /\ lg_name' = [lg_name EXCEPT ![l] = n]
            /\ lg_moved' = [lg_moved EXCEPT ![l] = FALSE]
            /\ loggers' = SetEntry(loggers, n, l)
            /\ lg_last' = LoggerOp("construct", l, 0, n, FALSE)
    /\ UNCHANGED nonLogVars

\* logger::logger(logger&& x) at place l: _name is moved out of x, then
\* moved(&x, this) sets _loggers[x.name()] = this
LoggerMoveConstruct(x, l) ==
    /\ lg_live[x]
    /\ ~lg_live[l]
    /\ lg_live' = [lg_live EXCEPT ![l] = TRUE]
    /\ lg_name' = [lg_name EXCEPT ![l] = lg_name[x], ![x] = MovedFromName(lg_name[x])]
    /\ lg_moved' = [lg_moved EXCEPT ![l] = FALSE, ![x] = TRUE]
    /\ loggers' = SetEntry(loggers, lg_name'[x], l)
    /\ lg_last' = LoggerOp("move", l, x, lg_name[x], FALSE)
    /\ UNCHANGED nonLogVars

\* logger::~logger: unregister_logger(this) erases the entry of name(), the _name of
\* the object
LoggerDestroy(l) ==
    /\ lg_live[l]
    /\ loggers' = EraseEntry(loggers, lg_name[l])
    /\ lg_live' = [lg_live EXCEPT ![l] = FALSE]
    /\ lg_name' = [lg_name EXCEPT ![l] = ""]
    /\ lg_moved' = [lg_moved EXCEPT ![l] = FALSE]
    /\ lg_last' = LoggerOp("destroy", l, 0, lg_name[l], lg_moved[l])
    /\ UNCHANGED nonLogVars

InitLogSpec == InitLog /\ IdleLoop /\ IdleMcfe /\ IdleDoWith /\ IdleWithLock /\ IdleClients /\ IdleGate /\ IdleSleep /\ IdlePlain /\ IdleClose /\ IdleSched /\ IdleRename /\ IdleRemove /\ IdleInject /\ IdleMoveGate /\ IdleTmp /\ IdleDefer

NextLog ==
    \/ \E l \in Loggers, n \in LoggerNames : LoggerConstruct(l, n)
    \/ \E x \in Loggers, l \in Loggers : LoggerMoveConstruct(x, l)
    \/ \E l \in Loggers : LoggerDestroy(l)

SpecLog == InitLogSpec /\ [][NextLog]_vars

\* ---- properties of the loops ---------------------------------------------------------

\* positions of the history
Invocations == {i \in DOMAIN log : log[i].ev = "invoke"}
Failures == {i \in DOMAIN log : log[i].ev = "resolve" /\ log[i].res = 0}
Successes == {i \in DOMAIN log : log[i].ev = "resolve" /\ log[i].res = 1}
StopsTrue == {i \in DOMAIN log : log[i].ev = "stop" /\ log[i].res = 1}

\* invocation k resolved successfully with value val before position i
ResolvedBefore(k, val, i) ==
    \E j \in 1..(i - 1) :
        log[j].ev = "resolve" /\ log[j].k = k /\ log[j].res = 1 /\ log[j].val = val

\* position i ends the loop: it is the last event and no invocation follows it
EndsLoop(i) == i = Len(log) /\ ncalls = log[i].k

\* the caller's future has the result final, or the frame that will deliver it from
\* its _state st sits in the ready queue
Settled(final, st) ==
    \/ promise = final
    \/ promise = Pending /\ frame = "scheduled" /\ state = st

\* the invocations of func that were started and whose future has not resolved
InFlight == {k \in DOMAIN mfuts : mfuts[k] = Pending}

\* C1: during max_concurrent_for_each at most max_concurrent invocations of func
\* are started and not yet resolved.
C1_McfeBounded == Cardinality(InFlight) <= s_max

C1_Witness ==
    /\ s_max >= 2
    /\ Cardinality(InFlight) = s_max
    /\ drv = "sem_wait"

\* the failures seen by the then_wrapped continuations, as positions of the history
ObservedFailures == {i \in DOMAIN mlog : mlog[i].ev = "observe" /\ mlog[i].res = 0}

\* the invocation whose failure was observed first
FirstObservedFailure ==
    mlog[CHOOSE i \in ObservedFailures : \A j \in ObservedFailures : i <= j].k

\* the future of max_concurrent_for_each resolves only when the range is exhausted,
\* every invocation has resolved and returned its unit, and the final wait holds all
\* units; it carries the failure observed first, or succeeds without failure
McfeResolvesAfterAll ==
    available(mpromise) =>
        /\ s_begin = s_end + 1
        /\ Len(mfuts) = s_end
        /\ \A k \in DOMAIN mfuts : available(mfuts[k]) /\ handlers[k] = "done"
        /\ sem = 0 /\ waiter = 0
        /\ mpromise = IF ObservedFailures = {} THEN Value(0)
                      ELSE Failed(FirstObservedFailure)

\* C2: the future returned by max_concurrent_for_each resolves only after the
\* range is exhausted and every launched invocation has resolved and given its unit
\* back; it fails with the first failure observed, succeeds otherwise; and when every
\* invocation resolves it eventually resolves.
C2_McfeCompletion == []McfeResolvesAfterAll /\ <>available(mpromise)

C2_Witness ==
    /\ s_end >= 2
    /\ mpromise = Failed(2)
    /\ failed(mfuts[1])

\* C9: the holder of do_with is destroyed exactly once, never before the future
\* returned by f has resolved (at return when that future is available or f threw,
\* when it resolves otherwise), and the future of do_with carries exactly the
\* result of the future of f, or the exception f threw.
C9_DoWith ==
    \A c \in DOMAIN dw_task :
        /\ dw_ndel[c] = IF dw_task[c] = "deleted" THEN 1 ELSE 0
        /\ dw_task[c] = "deleted" => dw_threw[c] \/ available(dw_fut[c])
        /\ dw_task[c] = "deleted" <=> available(dw_ret[c])
        /\ available(dw_ret[c]) =>
            dw_ret[c] = IF dw_threw[c] THEN Failed(c) ELSE dw_fut[c]
        /\ dw_threw[c] => dw_task[c] = "deleted" /\ failed(dw_ret[c])

C9_Witness ==
    \E c \in DOMAIN dw_task :
        /\ dw_ret[c] = Value(2)
        /\ dw_state[c] = Value(2)
        /\ dw_ndel[c] = 1

\* the lock was granted to call i
Acquired(i) == lockfut[i] = Value(0)

\* C10: a with_lock call that acquired the lock calls unlock() exactly once, after
\* the future of func has resolved, whether func returned a value, a failed future
\* or threw; the result carries the outcome of func; and when every call made so
\* far acquired the lock and has its result, an exclusive try_lock succeeds.
C10_WithLock ==
    /\ \A i \in DOMAIN fpc :
        Acquired(i) =>
            /\ nunlock[i] <= 1
            /\ nunlock[i] = 1 => available(funcfut[i])
            /\ available(result[i]) => nunlock[i] = 1 /\ result[i] = funcfut[i]
            /\ nunlock[i] = 1 <=> fpc[i] = "done"
            /\ outcome[i] = "throw" => funcfut[i] = Failed(i)
    /\ (/\ \E i \in DOMAIN fpc : fpc[i] = "done"
        /\ \A i \in DOMAIN fpc :
            \/ fpc[i] = "start"
            \/ Acquired(i) /\ available(result[i]))
       => TryLock /\ waiters = <<>>

C10_Witness ==
    \E i, j \in DOMAIN fpc :
        /\ i # j
        /\ mode[i] = "write"
        /\ outcome[i] = "throw"
        /\ result[i] = Failed(i)
        /\ nunlock[i] = 1
        /\ outcome[j] = "pending"
        /\ result[j] = Value(2)
        /\ nunlock[j] = 1
        /\ TryLock

\* the with_lock calls that hold the lock: granted and not yet unlocked by the call
WriteHolders ==
    {i \in DOMAIN fpc : mode[i] = "write" /\ Acquired(i) /\ nunlock[i] = 0}
ReadHolders ==
    {i \in DOMAIN fpc : mode[i] = "read" /\ Acquired(i) /\ nunlock[i] = 0}

\* C11: while a with_lock(for_write) call holds the lock there is no other holder,
\* shared or exclusive, and the lock grants no acquisition; while a reader holds it
\* the lock grants no exclusive acquisition.
C11_MutualExclusion ==
    /\ Cardinality(WriteHolders) <= 1
    /\ WriteHolders # {} => ReadHolders = {} /\ ~TryLock /\ ~TryLockShared
    /\ ReadHolders # {} => ~TryLock

\* the fibers that hold the lock after a direct call, and those parked in the queue
MReaders == {i \in DOMAIN cpc : cpc[i] = "hold_read"}
MWriters == {i \in DOMAIN cpc : cpc[i] = "hold_write"}
MWaiting == {i \in DOMAIN cpc : cpc[i] \in {"wait_read", "wait_write"}}
Queued == {waiters[n].fiber : n \in DOMAIN waiters}

\* the call recorded in ret' was granted at once, seen from the state before it:
\* exclusive iff nobody holds the lock, shared iff no writer holds it and nobody is
\* parked; a try that fails changes nothing
ImmediateGrant ==
    LET r == ret'
        now == r.res \in {"ready", "true"}
    IN  /\ r.op \in {"lock", "try_lock"} =>
            /\ now <=> (MReaders = {} /\ MWriters = {})
            /\ now => cpc'[r.fiber] = "hold_write"
        /\ r.op \in {"lock_shared", "try_lock_shared"} =>
            /\ now <=> (MWriters = {} /\ MWaiting = {})
            /\ now => cpc'[r.fiber] = "hold_read"
        /\ r.res = "false" => UNCHANGED <<lockVars, cpc>>

\* the caller of the lock() recorded in ret' is parked in the queue
Parked ==
    /\ ret'.res = "pending"
    /\ cpc'[ret'.fiber] = IF ret'.op = "lock" THEN "wait_write" ELSE "wait_read"
    /\ ret'.fiber \in {waiters'[n].fiber : n \in DOMAIN waiters'}

\* nobody holds the lock: the counters say so and an exclusive try_lock succeeds
FreeWhenUnheld ==
    /\ readers = Cardinality(MReaders)
    /\ writer = (MWriters # {})
    /\ MWaiting = Queued
    /\ MReaders \cup MWriters = {} => TryLock /\ waiters = <<>>

\* C12 as stated: immediate acquisition depends only on the state of the lock, a
\* failed try_lock changes nothing, every lock() that is not granted at once parks
\* its caller, and with no holder left an exclusive try_lock succeeds.
C12_Original ==
    /\ []FreeWhenUnheld
    /\ [][/\ ImmediateGrant
          /\ (ret'.op \in {"lock", "lock_shared"} /\ ret'.res # "ready") => Parked]_vars

\* C12 amended: as stated, but a lock() that is not granted at once parks its caller
\* or, when the waiter cannot be queued, returns a failed future and changes nothing.
C12_ImmediateAcquisition ==
    /\ []FreeWhenUnheld
    /\ [][/\ ImmediateGrant
          /\ (ret'.op \in {"lock", "lock_shared"} /\ ret'.res # "ready") =>
                \/ Parked
                \/ ret'.res = "failed" /\ UNCHANGED <<lockVars, cpc>>]_vars

C12_Witness ==
    /\ ret.op = "lock_shared"
    /\ ret.res = "pending"
    /\ MReaders # {}
    /\ Len(waiters) = 2
    /\ waiters[1].for_write

\* the waiters are granted from the front of the queue and parked at its back; with
\* a writer at the front and a reader left holding the lock an unlock wakes nobody
FifoStep ==
    /\ \A q \in DOMAIN waiters :
        cpc'[waiters[q].fiber] \in {"hold_read", "hold_write"} =>
            \A p \in 1..(q - 1) : cpc'[waiters[p].fiber] \in {"hold_read", "hold_write"}
    /\ ret'.res = "pending" =>
            /\ Len(waiters') = Len(waiters) + 1
            /\ waiters'[Len(waiters')].fiber = ret'.fiber
            /\ \A n \in DOMAIN waiters : waiters'[n] = waiters[n]
    /\ (/\ ret'.op = "unlock_shared"
        /\ waiters # <<>>
        /\ waiters[1].for_write
        /\ MReaders \ {ret'.fiber} # {}) => waiters' = waiters /\ MWaiting' = MWaiting

\* C13: waiters queue at the back and are granted in queue order, a reader behind a
\* writer never before it, nobody while a writer is at the front and readers hold the
\* lock; when holders unlock, every parked fiber is eventually granted the lock.
C13_FifoNoStarvation ==
    /\ [][FifoStep]_vars
    /\ \A i \in Clients :
        (cpc[i] \in {"wait_read", "wait_write"}) ~> (cpc[i] \in {"hold_read", "hold_write"})

C13_Witness ==
    /\ ret.op = "unlock"
    /\ Len(waiters) = 1
    /\ ~waiters[1].for_write
    /\ MWriters # {}

\* the operations inside the gate: entered and not yet left
Inside == {k \in DOMAIN gop : gop[k] \in {"entered", "running", "leave_sched"}}

\* close() was called on the gate
CloseCalled == g_stopped # NoFuture

\* C14: the future of close() is resolved exactly when the gate is closed and every
\* successful enter has had its leave; it is resolved once, at close() when nothing
\* is inside, never while an operation is inside.
C14_GateClose ==
    /\ available(g_stopped) <=> (CloseCalled /\ Inside = {})
    /\ g_nset = IF available(g_stopped) THEN 1 ELSE 0
    /\ ~failed(g_stopped)

C14_Witness ==
    /\ g_stopped = Value(0)
    /\ \E k \in DOMAIN gop : gop[k] = "left"
    /\ \E k \in DOMAIN gop : gop[k] = "done" /\ failed(gfut[k])
    /\ \E k \in DOMAIN gop : gop[k] = "closed"

\* an operation starts in this step
Starts(k) == gop[k] = "none" /\ gop'[k] # "none"

\* C15: after close() every enter() and with_gate() fails with the gate-closed error
\* without touching the count or running f; before close() with_gate counts the
\* operation from its start until the future of f has resolved, whatever its result,
\* and then takes it out of the count once.
C15_GateClosed ==
    /\ [](/\ g_count = Cardinality(Inside)
          /\ \A k \in DOMAIN gop :
              /\ gop[k] = "closed" => gfut[k] = Failed(GateClosedError) /\ ~grun[k]
              /\ gop[k] = "done" => grun[k] /\ available(gfut[k])
              /\ gop[k] = "running" => grun[k] /\ gfut[k] = Pending)
    /\ [][\A k \in DOMAIN gop :
            Starts(k) =>
                IF CloseCalled
                THEN gop'[k] = "closed" /\ g_count' = g_count
                ELSE gop'[k] # "closed"]_vars

C15_Witness ==
    /\ CloseCalled
    /\ g_count = 1
    /\ \E k \in DOMAIN gop : gop[k] = "closed" /\ ~grun[k]
    /\ \E k \in DOMAIN gop : gop[k] = "leave_sched" /\ failed(gfut[k])

\* the sleepers that called sleep_abortable while the source was not fired
LiveAtEntry == {s \in DOMAIN sl_entry : sl_entry[s] = "live"}

\* the sleepers that called sleep_abortable on a fired source
AbortedAtEntry == {s \in DOMAIN sl_entry : sl_entry[s] = "aborted"}

\* C16: a sleep on a source that was not fired at the call is resolved once; it fails
\* with sleep_aborted iff request_abort() runs while its timer is armed, and then
\* the timer is cancelled and its callback never runs; it succeeds iff the timer
\* fires first, and nothing changes its result afterwards.
C16_SleepAbortable ==
    /\ [](\A s \in LiveAtEntry :
            /\ nres[s] = IF available(done[s]) THEN 1 ELSE 0
            /\ failed(done[s]) =>
                    /\ done[s] = Failed(SleepAbortedError)
                    /\ ncb[s] = 0
                    /\ ~tmr_armed[s]
                    /\ s \in Members(ablog)
            /\ done[s].st = "value" => ncb[s] = 1
            /\ done[s] = Pending => tmr_armed[s])
    /\ [][\A s \in LiveAtEntry :
            /\ (~as_aborted /\ as_aborted' /\ tmr_armed[s]) =>
                    done'[s] = Failed(SleepAbortedError) /\ ~tmr_armed'[s]
            /\ (ncb'[s] # ncb[s]) => tmr_armed[s] /\ done'[s] = Value(0)
            /\ available(done[s]) => done'[s] = done[s] /\ ncb'[s] = ncb[s]]_vars

C16_Witness ==
    /\ \E s \in LiveAtEntry : done[s] = Value(0) /\ s \in Members(ablog)
    /\ \E s \in LiveAtEntry : done[s] = Failed(SleepAbortedError)

\* C17: a sleep called on a fired source fails with sleep_aborted, holds no
\* subscription, never arms its timer and is resolved once.
C17_SleepOnAborted ==
    \A s \in AbortedAtEntry :
        /\ done[s] = Failed(SleepAbortedError)
        /\ s \notin Members(as_subs)
        /\ narm[s] = 0
        /\ ~tmr_armed[s]
        /\ ncb[s] = 0
        /\ nres[s] = 1

C17_Witness ==
    /\ nabort >= 2
    /\ \E s \in AbortedAtEntry : sl_pc[s] = "finished"
    /\ \E s \in AbortedAtEntry : sl_pc[s] = "finally_sched"

\* C18: sleep_abortable(dur) fails with sleep_aborted iff the wait for the stop of
\* the engine resolves, succeeds iff the wait times out, and fails with any other
\* failure of the wait.
C18_SleepPlain ==
    \A w \in DOMAIN ps_pc :
        IF ps_pc[w] = "done"
        THEN /\ ps_res[w] = Failed(SleepAbortedError) <=> ps_f0[w] = Value(0)
             /\ ps_res[w] = Value(0) <=> ps_f0[w] = Failed(CvTimedOutError)
             /\ available(ps_res[w])
             /\ (failed(ps_f0[w]) /\ ps_f0[w].v # CvTimedOutError) => ps_res[w] = ps_f0[w]
        ELSE ~available(ps_res[w])

C18_Witness ==
    /\ \E w \in DOMAIN ps_pc :
        ps_pc[w] = "done" /\ ps_f0[w] = Value(0) /\ ps_res[w] = Failed(SleepAbortedError)
    /\ \E w \in DOMAIN ps_pc :
        ps_pc[w] = "done" /\ ps_f0[w] = Failed(CvTimedOutError) /\ ps_res[w] = Value(0)

\* the subscriptions that were registered and not dropped, in registration order
LiveSubscriptions == SelectSeq(reg, LAMBDA s : sl_pc[s] # "finished")

\* C19: the first request_abort() invokes the callback of every live subscription
\* once, in registration order; a later one invokes nothing; a dropped subscription
\* is never invoked; subscribe() on a fired source gives no handle and its callback
\* is never invoked.
C19_AbortSource ==
    /\ [](/\ Len(ablog) = Cardinality(Members(ablog))
          /\ ~as_aborted => ablog = <<>>
          /\ \A s \in AbortedAtEntry :
                s \notin Members(ablog) /\ s \notin Members(as_subs) /\ s \notin Members(reg))
    /\ [][/\ (~as_aborted /\ as_aborted') => ablog' = LiveSubscriptions
          /\ (as_aborted \/ ~as_aborted') => ablog' = ablog]_vars

C19_Witness ==
    /\ nabort >= 2
    /\ Len(ablog) = 2
    /\ ablog[1] > ablog[2]
    /\ \E s \in LiveAtEntry : sl_pc[s] = "finished" /\ s \notin Members(ablog)

\* C20: the function given to defer is invoked once, when its deferred_action is
\* destroyed, unless cancel() was called on the action before; it is never invoked
\* while the action lives.
C20_DeferredAction ==
    \A f \in DOMAIN d_ninv :
        d_ninv[f] = IF d_ended[f] /\ ~d_usercan[f] THEN 1 ELSE 0

C20_Witness ==
    /\ \E f \in DOMAIN d_ninv : d_ended[f] /\ d_usercan[f]
    /\ \E f \in DOMAIN d_ninv :
        /\ d_ended[f]
        /\ d_ninv[f] = 1
        /\ \E o \in DOMAIN d_obj : d_obj[o].live /\ d_obj[o].func = f /\ d_obj[o].cancelled

\* C21: a close or stop controller calls close() (stop()) of its object once in its
\* life: close_now() / stop_now() makes the call if it is called, else the
\* destructor does; the destructor makes no second call; the controller goes on
\* only when the future of the call has resolved.
C21_CloseOnce ==
    \A c \in DOMAIN cc_pc :
        /\ cc_ncalls[c] <= 1
        /\ cc_pc[c] = "destroyed" => cc_ncalls[c] = 1 /\ cc_fut[c] = Value(0)
        /\ cc_by[c] = "now" <=> (cc_ncalls[c] = 1 /\ cc_nnow[c] >= 1)
        /\ cc_by[c] = "dtor" <=> (cc_ncalls[c] = 1 /\ cc_nnow[c] = 0)
        /\ (cc_ncalls[c] = 1 /\ cc_pc[c] = "live") => cc_fut[c] = Value(0)
        /\ cc_fut[c] = Pending => cc_pc[c] \in {"wait_now", "wait_dtor"}

C21_Witness ==
    /\ \E c \in DOMAIN cc_pc :
        cc_pc[c] = "destroyed" /\ cc_by[c] = "now" /\ cc_kind[c] = "close"
    /\ \E c \in DOMAIN cc_pc :
        cc_pc[c] = "destroyed" /\ cc_by[c] = "dtor" /\ cc_kind[c] = "stop"

\* the tasks that exist
Created == {t \in DOMAIN sg_pc : sg_pc[t] # "none"}

\* C22 as stated: every task created while group G is current is tagged with G and
\* runs with G current.
C22_Original ==
    \A t \in Created :
        /\ sg_tag[t] = sg_born[t]
        /\ sg_pc[t] = "done" => sg_ran[t] = sg_born[t]

\* C22: a task or continuation constructed without a scheduling group while G is
\* current is tagged with G, and one constructed with a group is tagged with that
\* group; a task runs with its tag as the current group, whatever group was
\* current when its future resolved.
C22_TaskGroup ==
    \A t \in Created :
        /\ ~sg_explicit[t] => sg_tag[t] = sg_born[t]
        /\ sg_pc[t] = "done" => sg_ran[t] = sg_tag[t]

C22_Witness ==
    \E t \in Created :
        /\ ~sg_explicit[t]
        /\ sg_born[t] # MainGroup
        /\ sg_res[t] = MainGroup
        /\ sg_pc[t] = "done"
        /\ sg_ran[t] = sg_born[t]

\* do_for_each or parallel_for_each was called on an empty range and has returned
EmptyLoopReturned == kind \in {"do_for_each", "parallel_for_each"} /\ len = 0 /\ pc # "call"

\* max_concurrent_for_each was called on an empty range and has returned
EmptyMcfeReturned == drv # "none" /\ s_end = 0 /\ ctx # "call"

\* C23: do_for_each, parallel_for_each and max_concurrent_for_each on an empty range
\* return a future that is resolved with success at the return, invoke nothing
\* and schedule no task, whatever need_preempt() says.
C23_EmptyRange ==
    /\ EmptyLoopReturned => promise = Value(0) /\ ncalls = 0 /\ frame = "none"
    /\ EmptyMcfeReturned => mpromise = Value(0) /\ mfuts = <<>> /\ drv = "done"

\* the first invocation of the action of repeat returned stop_iteration::yes in
\* an available future
FirstYesReady ==
    /\ kind = "repeat"
    /\ Len(log) >= 2
    /\ log[1].ev = "invoke" /\ log[1].ready = 1
    /\ log[2].ev = "resolve" /\ log[2].res = 1 /\ log[2].val = stop_iteration_yes

\* C24: when the first invocation returns stop_iteration::yes at once, repeat
\* returns a future resolved with success and no frame is allocated or
\* scheduled, whatever need_preempt() says.
C24_RepeatFirstYes ==
    FirstYesReady => promise = Value(0) /\ frame = "none" /\ nrun = 0

\* the elements on which a history invoked the action, in order
InvokedElements(l) ==
    LET inv == SelectSeq(l, LAMBDA e : e.ev = "invoke")
    IN  [j \in 1..Len(inv) |-> inv[j].el]

\* the result (1 success, 0 failure) that a history gives for the action on el,
\* 2 when it has none; marker names the events that carry results
ResultOn(l, marker, el) ==
    LET inv == {j \in 1..Len(l) : l[j].ev = "invoke" /\ l[j].el = el}
        res == {j \in 1..Len(l) : l[j].ev = marker /\ \E i \in inv : l[i].k = l[j].k}
    IN  IF res = {} THEN 2 ELSE l[CHOOSE j \in res : TRUE].res

\* the action behaved the same on every element that both calls gave it
SamePattern ==
    \A el \in 1..len :
        \/ ResultOn(log, "resolve", el) = 2
        \/ ResultOn(mlog, "observe", el) = 2
        \/ ResultOn(log, "resolve", el) = ResultOn(mlog, "observe", el)

\* in the history l an invocation starts only after the one before it is done
OneAtATime(l, marker) ==
    \A p \in 1..Len(l), q \in 1..Len(l) :
        (p < q /\ l[p].ev = "invoke" /\ l[q].ev = "invoke") =>
            \E r \in (p + 1)..(q - 1) : l[r].ev = marker /\ l[r].k = l[p].k

\* both calls have their result
BothDone == available(promise) /\ drv = "done"

\* s is a prefix of t
IsPrefix(s, t) == Len(s) <= Len(t) /\ \A j \in 1..Len(s) : s[j] = t[j]

\* C25 as stated: with max_concurrent == 1 both calls invoke the action on the same
\* elements in the same order, one at a time, and give the same result.
C25_Original ==
    (BothDone /\ SamePattern) =>
        /\ InvokedElements(log) = InvokedElements(mlog)
        /\ promise = mpromise

\* C25: with max_concurrent == 1 max_concurrent_for_each invokes the action on every
\* element in range order, one at a time; do_for_each does the same up to the
\* first failure and stops there; when the action behaves the same both give the
\* same result, success or the first failure.
C25_McfeSequential ==
    /\ OneAtATime(log, "resolve")
    /\ OneAtATime(mlog, "observe")
    /\ (BothDone /\ SamePattern) =>
        /\ InvokedElements(mlog) = [j \in 1..len |-> j]
        /\ IsPrefix(InvokedElements(log), InvokedElements(mlog))
        /\ ~failed(promise) => InvokedElements(log) = InvokedElements(mlog)
        /\ failed(promise) => promise.v = InvokedElements(log)[Len(InvokedElements(log))]
        /\ promise = mpromise

C25_Witness ==
    /\ BothDone
    /\ SamePattern
    /\ len = 2
    /\ InvokedElements(log) = <<1>>
    /\ InvokedElements(mlog) = <<1, 2>>
    /\ ResultOn(mlog, "observe", 2) = 0
    /\ promise = Failed(1)
    /\ mpromise = Failed(1)

\* the loops that look at need_preempt() between two iterations
PreemptibleLoops == {"do_for_each", "repeat", "repeat_until_value", "do_until"}

\* the invocation logged at position i completed synchronously: its future was ready
\* and not failed, and its result does not end the loop
SyncContinue(i) ==
    /\ log[i].ev = "invoke"
    /\ log[i].ready = 1
    /\ i < Len(log)
    /\ log[i + 1].ev = "resolve"
    /\ log[i + 1].k = log[i].k
    /\ log[i + 1].res = 1
    /\ kind = "repeat" => log[i + 1].val = stop_iteration_no
    /\ kind = "repeat_until_value" => log[i + 1].val = nullopt
    /\ kind = "do_for_each" => log[i].el < len

\* C26: in repeat, repeat_until_value, do_until and do_for_each, when an iteration
\* completes synchronously without ending the loop and need_preempt() is true, the
\* loop invokes no further action in that task run: the frame is in the ready queue,
\* and every later invocation happens in a later run of the frame.
C26_PreemptBetweenIterations ==
    kind \in PreemptibleLoops =>
        \A i \in 1..Len(log) :
            (SyncContinue(i) /\ preempt[log[i].k]) =>
                /\ \A j \in 1..Len(log) :
                    (log[j].ev = "invoke" /\ log[j].k > log[i].k) =>
                        log[j].run > log[i].run
                /\ nrun = log[i].run => pc = "idle" /\ frame = "scheduled"

C26_Witness ==
    /\ kind = "do_for_each"
    /\ \E i, j \in 1..Len(log) :
        /\ SyncContinue(i)
        /\ preempt[log[i].k]
        /\ log[j].ev = "invoke"
        /\ log[j].k = log[i].k + 1
        /\ log[j].run = log[i].run + 1

\* rename_file_ext was called on two names of one file that is not a directory
SameFileAtCall == rn_old0 # 0 /\ rn_old0 = rn_new0 /\ rn_type[rn_old0] # "directory"

\* C27: when oldpath and newpath are hard links to one file that is not a directory,
\* rename_file_ext removes oldpath and succeeds, newpath staying, for always and
\* if_same, and fails with EEXIST leaving both paths for if_not_same and never.
C27_RenameSameFile ==
    (rn_pc = "done" /\ SameFileAtCall) =>
        IF rn_flag \in {"always", "if_same"}
        THEN rn_res = Value(0) /\ rn_old = 0 /\ rn_new = rn_new0
        ELSE rn_res = Failed(EEXIST) /\ rn_old = rn_old0 /\ rn_new = rn_new0

\* node n was removed by an operation logged before position i
RemovedBefore(n, i) ==
    \E j \in 1..(i - 1) : rr_log[j] = FileOp("remove", n, TRUE)

Counted(p) ==
    /\ fi_hist[p].guards = 0
    /\ fi_hist[p].pred

\* the number, from 0, of the counted call at position p among those after the last
\* arming call
IndexAfterArm(p) == Cardinality({q \in 1..(p - 1) : Counted(q)})

\* C29: after fail_after(n, k) the counted system calls with index in [n, n + k),
\* numbered from 0 from that call, fail with the injector's error and all others
\* proceed; a call whose predicate is false does not fail and is not numbered.
C29_FailAfter ==
    /\ fi_arm # <<>> =>
        \A p \in 1..Len(fi_hist) :
            IF Counted(p) /\ IndexAfterArm(p) >= fi_arm.n
                          /\ IndexAfterArm(p) < fi_arm.n + fi_arm.k
            THEN fi_hist[p].ret = -1 /\ fi_hist[p].errno = fi_error
            ELSE fi_hist[p].ret = 0
    /\ (fi_last # <<>> /\ ~fi_last.pred) => fi_last.ret = 0

\* fail_after(1, 2) and then four counted calls: success, failure, failure, success
C29_Witness ==
    /\ fi_arm = Armed(1, 2)
    /\ Len(fi_hist) = 4
    /\ \A p \in 1..4 : Counted(p)
    /\ [p \in 1..4 |-> fi_hist[p].ret] = <<0, -1, -1, 0>>

\* a system call is made while a guard is alive
SyscallUnderGuard == fi_suppressed > 0 /\ fi_nsys' = fi_nsys + 1

\* a step between the creation of the first guard and the destruction of the
\* last one that is no call of fail_after, fail_once or cancel
StepUnderGuard == (fi_suppressed > 0 \/ fi_suppressed' > 0) /\ fi_narm' = fi_narm

\* C30: while a guard is alive on_syscall injects no error and leaves the call count
\* and the window as they are; from the creation of the first guard to the
\* destruction of the last one, the guards nesting by counting, the count and the
\* window stay what they were, so that injection goes on as it was armed.
C30_DisableGuard ==
    [][/\ SyscallUnderGuard => fi_last'.ret = 0
       /\ StepUnderGuard => InjectorState' = InjectorState]_vars

\* a window was open, a call under a guard did not fail, two guards were alive at one
\* such call, and the next call after the guards were destroyed failed
C30_Witness ==
    /\ fi_suppressed = 0
    /\ fi_nest = 2
    /\ \E p \in 2..Len(fi_hist) :
        /\ fi_hist[p - 1].guards = 1
        /\ fi_hist[p - 1].ret = 0
        /\ fi_hist[p].guards = 0
        /\ fi_hist[p].ret = -1

\* the owners of the frame: the pending future that has it as its callback, the
\* ready queue, and the stack of run_and_dispose
FrameOwners ==
    (IF fut # 0 THEN 1 ELSE 0) + (IF frame = "scheduled" THEN 1 ELSE 0)
        + (IF pc = "run" THEN 1 ELSE 0)

InvokedIn(r) == \E i \in DOMAIN log : log[i].ev = "invoke" /\ log[i].run = r

\* run r of the loop is over
RunOver(r) == r < nrun \/ pc = "idle"

\* C32: every run of a loop frame, and the initial call, that is over has invoked the
\* action at least once or has resolved the result, whatever need_preempt() returned;
\* and do_for_each eventually resolves its result, successfully when no invocation
\* failed, when the ready queue runs the scheduled frame and pending futures resolve.
C32_Progress ==
    /\ [](kind \in PreemptibleLoops =>
            \A r \in 0..nrun :
                RunOver(r) => InvokedIn(r) \/ (r = nrun /\ available(promise)))
    /\ (kind = "do_for_each" =>
            <>(/\ available(promise)
               /\ (\A i \in DOMAIN log : log[i].ev = "resolve" => log[i].res = 1)
                    => promise = Value(0) /\ ncalls = len))

\* do_for_each resolved over a range of MaxLen elements with need_preempt() true after
\* every invocation: each run of the frame invoked the action once
C32_Witness ==
    /\ kind = "do_for_each"
    /\ len = MaxLen
    /\ promise = Value(0)
    /\ ncalls = len
    /\ \A k \in DOMAIN preempt : preempt[k]
    /\ \A r \in 0..(len - 1) : InvokedIn(r)
    /\ nrun = len

\* C33: when lock() of a with_lock call failed, func is not run, the call never calls
\* unlock(), its steps leave the lock as it is, and its result is the failure of lock().
C33_UnlockOnlyAfterLock ==
    /\ [](\A i \in DOMAIN fpc :
            failed(lockfut[i]) =>
                /\ funcfut[i] = NoFuture
                /\ outcome[i] = "none"
                /\ nunlock[i] = 0
                /\ available(result[i]) => result[i] = lockfut[i])
    /\ [][\A i \in DOMAIN fpc :
            (failed(lockfut'[i]) /\ fpc'[i] # fpc[i]) =>
                <<readers, writer, waiters>>' = <<readers, writer, waiters>>]_vars

\* the invocations of func that were launched and have not returned their unit
Unreturned == {k \in DOMAIN handlers : handlers[k] # "done"}

\* the units that a granted wait took from the semaphore before its continuation
\* ran: one for the next launch, max_concurrent for the final wait
UnitsTaken ==
    CASE drv = "launch_sched" -> 1
      [] drv \in {"check_sched", "dw_sched", "done"} -> s_max
      [] OTHER -> 0

\* the then_wrapped continuations that have run for invocation k
Observed(k) == {i \in DOMAIN mlog : mlog[i].ev = "observe" /\ mlog[i].k = k}

\* func is invoked once on each element in range order, whatever failed before, and
\* each invocation returns its unit once, when its continuation runs
EveryElementOnce ==
    /\ InvokedElements(mlog) = [j \in 1..(s_begin - 1) |-> j]
    /\ Len(mfuts) = s_begin - 1
    /\ available(mpromise) => s_begin = s_end + 1
    /\ \A k \in DOMAIN handlers :
        /\ Cardinality(Observed(k)) = IF handlers[k] = "done" THEN 1 ELSE 0
        /\ handlers[k] = "done" => available(mfuts[k])

\* C34 as stated: in max_concurrent_for_each func is invoked once on every element in
\* range order also after failures, each invocation returns one unit when it
\* completes, and the available units plus the invocations in flight are always
\* max_concurrent.
C34_Original ==
    /\ EveryElementOnce
    /\ sem + Cardinality(Unreturned) = s_max

\* C34: in max_concurrent_for_each func is invoked once on every element in range
\* order also after failures, each invocation returns one unit when its continuation
\* runs, and the available units, the invocations that have not returned their unit
\* and the units taken by a granted wait (one before a launch, max_concurrent by the
\* final wait) add up to max_concurrent.
C34_McfeNoShortCircuit ==
    /\ EveryElementOnce
    /\ sem + Cardinality(Unreturned) + UnitsTaken = s_max
    /\ sem + Cardinality(Unreturned) <= s_max

\* the first invocation failed and was seen to fail before the second was launched;
\* all three elements were invoked and the result is the first failure
C34_Witness ==
    /\ s_end = 3
    /\ Len(mfuts) = 3
    /\ drv = "done"
    /\ mpromise = Failed(1)
    /\ mfuts[3] = Failed(3)
    /\ \E i, j \in DOMAIN mlog :
        /\ i < j
        /\ mlog[i].ev = "observe" /\ mlog[i].k = 1 /\ mlog[i].res = 0
        /\ mlog[j].ev = "invoke" /\ mlog[j].k = 2
    /\ Unreturned = {}

\* a throw of stop_cond or a failure of the action has ended do_until: the result is
\* that failure and neither stop_cond nor the action is called any more
EndedByFailure ==
    /\ pc = "idle"
    /\ frame \in {"none", "deleted"}
    /\ \A i \in Failures : i = Len(log)

\* C35: a throw of stop_cond or of the action in do_until, also in the evaluation made
\* inside the do_until call itself, does not end the program: the returned future
\* fails with the exception and nothing is called afterwards.
C35_DoUntilThrow ==
    kind = "do_until" =>
        /\ pc # "terminated"
        /\ promise.st = "failed" => EndedByFailure
        /\ \A i \in Failures : Settled(Failed(log[i].k), Failed(log[i].k))

\* the holder of the function f ends in the step: it is destroyed or assigned over
HolderEnds(f) == d_ended'[f] /\ ~d_ended[f]

\* C36: over all moves, assignments, cancels and destructions of deferred actions a
\* function is invoked at most once; it is invoked exactly in the step that destroys
\* or assigns over its current holder, and only if cancel() was never called on a
\* holder of it, so never by a moved-from object; and assigning an object to itself
\* changes nothing.
C36_DeferredMoves ==
    /\ [](\A f \in DOMAIN d_ninv : d_ninv[f] <= 1)
    /\ [][/\ \A f \in DOMAIN d_ninv :
              /\ d_ninv'[f] # d_ninv[f] => HolderEnds(f) /\ ~d_usercan[f]
              /\ (HolderEnds(f) /\ ~d_usercan[f]) => d_ninv'[f] = d_ninv[f] + 1
          /\ d_self' =>
              <<d_obj, d_ninv, d_holder, d_ended, d_usercan, d_nf>>'
                  = <<d_obj, d_ninv, d_holder, d_ended, d_usercan, d_nf>>]_vars

\* an object that holds a function and is not cancelled was just assigned to itself,
\* next to a moved-from object; another function ran once when its holder ended
C36_Witness ==
    /\ d_self
    /\ \E f \in DOMAIN d_ninv, o \in DOMAIN d_obj :
        /\ d_holder[f] = o /\ ~d_ended[f]
        /\ d_obj[o].live /\ ~d_obj[o].cancelled
        /\ d_ninv[f] = 0
    /\ \E f \in DOMAIN d_ninv : d_ended[f] /\ d_ninv[f] = 1
    /\ \E o \in DOMAIN d_obj :
        d_obj[o].live /\ d_obj[o].cancelled /\ \A f \in DOMAIN d_holder : d_holder[f] # o

RECURSIVE TotalCount(_, _)
\* the sum of _count over the gates of S in gs
TotalCount(gs, S) ==
    IF S = {} THEN 0
    ELSE LET g == CHOOSE x \in S : TRUE
         IN  gs[g].count + TotalCount(gs, S \ {g})

\* C37: the move constructor gives the new gate the count and the close promise of
\* its source and leaves the source with count 0, so the sum of the counts is kept;
\* the count of every gate is the number of entries outstanding on it, so a
\* moved-from gate can be destroyed, and a destructor's assertion fails only on a
\* gate that has outstanding entries.
C37_GateMove ==
    /\ [](/\ \A g \in DOMAIN mg_gate : mg_gate[g].count = mg_ent[g]
          /\ mg_dead # 0 => mg_ent[mg_dead] > 0)
    /\ [][mg_last'.op = "move" =>
            /\ mg_gate'[mg_last'.h].count = mg_gate[mg_last'.g].count
            /\ mg_gate'[mg_last'.h].stopped = mg_gate[mg_last'.g].stopped
            /\ mg_gate'[mg_last'.g].count = 0
            /\ mg_gate'[mg_last'.g].live
            /\ TotalCount(mg_gate', DOMAIN mg_gate) = TotalCount(mg_gate, DOMAIN mg_gate)]_vars

\* a closed gate with two outstanding entries was just moved: the new gate has the
\* count and the pending promise, the moved-from gate has count 0
C37_Witness ==
    /\ mg_last.op = "move"
    /\ mg_gate[mg_last.h] = [live |-> TRUE, count |-> 2, stopped |-> "pending"]
    /\ mg_gate[mg_last.g] = [live |-> TRUE, count |-> 0, stopped |-> "moved"]
    /\ mg_ent[mg_last.h] = 2

\* C38: whatever step of tmp_file::do_with or tmp_dir::do_with fails, the object is
\* closed and has no path when the holder is destroyed: no assertion of a destructor
\* fails.
C38_TmpDestructor ==
    \A t \in DOMAIN tf_pc :
        /\ tf_pc[t] # "aborted"
        /\ tf_pc[t] = "done" => ~tf_opened[t] /\ ~tf_path[t]

\* the logger objects that are alive and were not moved from
NamedLoggers == {l \in DOMAIN lg_live : lg_live[l] /\ ~lg_moved[l]}

\* every entry of the registry refers to the one live logger of that name, and every
\* such logger has its entry
RegistryExact ==
    /\ \A n \in DOMAIN loggers : loggers[n] \in NamedLoggers /\ lg_name[loggers[n]] = n
    /\ \A l \in NamedLoggers : lg_name[l] \in DOMAIN loggers /\ loggers[lg_name[l]] = l

\* C39: the registry maps every registered name to the one live logger of that name:
\* a second registration of a name throws and changes nothing, the destruction of a
\* logger removes its name, and after a move construction the name maps to the new
\* object and no entry refers to the source.
C39_LoggerRegistry ==
    /\ [](lg_last # <<>> => RegistryExact)
    /\ [][lg_last # <<>> =>
            /\ (lg_last'.op = "construct" /\ lg_last'.threw) => loggers' = loggers
            /\ (lg_last'.op = "construct" /\ ~lg_last'.threw) =>
                    /\ lg_last'.n \notin DOMAIN loggers
                    /\ loggers'[lg_last'.n] = lg_last'.l
            /\ (lg_last'.op = "destroy" /\ ~lg_last'.threw) =>
                    lg_last'.n \notin DOMAIN loggers'
            /\ lg_last'.op = "move" =>
                    /\ lg_last'.n \in DOMAIN loggers'
                    /\ loggers'[lg_last'.n] = lg_last'.l
                    /\ \A k \in DOMAIN loggers' : loggers'[k] # lg_last'.x]_vars

\* a step that is a call of fail_after(count, how_long) or of fail_once()
IsFailAfter ==
    /\ fi_narm' = fi_narm + 1
    /\ ~fi_cancel'

\* the smaller of two numbers
Min(a, b) == IF a <= b THEN a ELSE b

\* C40: fail_after(count, how_long) never lets the window wrap: when _count + count
\* reaches the maximum of uint64_t the injector is cancelled, both ends are the
\* maximum and no call fails; else the window starts at _count + count and ends at
\* _fail_at + how_long, or at the maximum when that sum is larger; _fail_at <=
\* _fail_until after every such call.
C40_FailAfterNoWrap ==
    /\ [](fi_arm # <<>> => fi_fail_at <= fi_fail_until /\ fi_fail_until <= Uint64Max)
    /\ [][/\ IsFailAfter =>
                LET count == fi_arm'.n
                    how_long == fi_arm'.k
                IN  IF fi_count + count >= Uint64Max
                    THEN fi_fail_at' = Uint64Max /\ fi_fail_until' = Uint64Max
                    ELSE /\ fi_fail_at' = fi_count + count
                         /\ fi_fail_until' = Min(fi_count + count + how_long, Uint64Max)
          /\ (fi_arm # <<>> /\ fi_fail_at = Uint64Max /\ fi_fail_until = Uint64Max
                /\ fi_nsys' = fi_nsys + 1) => fi_last'.ret = 0]_vars

\* after one counted call, fail_after(max - 1, max): the sum is the maximum, the
\* injector is cancelled, and the next counted call does not fail
C40_Witness ==
    /\ fi_arm = Armed(Uint64Max - 1, Uint64Max)
    /\ ~fi_cancel
    /\ fi_count = 2
    /\ fi_fail_at = Uint64Max
    /\ fi_fail_until = Uint64Max
    /\ Len(fi_hist) = 1
    /\ Counted(1)
    /\ fi_hist[1].ret = 0

\* C3: do_for_each invokes the action on the elements in range order, starts the
\* invocation for the next element only after the previous future resolved
\* successfully, and its future resolves successfully only when every element was
\* handed to the action exactly once and every invocation has resolved.
C3_DoForEachSequential ==
    kind = "do_for_each" =>
        /\ \A i \in Invocations :
            /\ log[i].el = log[i].k
            /\ log[i].k > 1 => ResolvedBefore(log[i].k - 1, 0, i)
        /\ promise.st = "value" =>
            \A el \in 1..len :
                /\ Cardinality({i \in Invocations : log[i].el = el}) = 1
                /\ ResolvedBefore(el, 0, Len(log) + 1)

C3_Witness ==
    /\ kind = "do_for_each"
    /\ len >= 2
    /\ promise = Value(0)
    /\ nrun >= 2

\* C4: do_for_each short-circuits: once an invocation fails (failed future,
\* asynchronous failure or throw) no later element is handed to the action and the
\* returned future fails with exactly that error.
C4_DoForEachShortCircuit ==
    kind = "do_for_each" =>
        /\ \A i \in Failures :
            /\ EndsLoop(i)
            /\ Settled(Failed(log[i].k), Failed(log[i].k))
        /\ promise.st = "failed" => \E i \in Failures : log[i].k = promise.v

C4_Witness ==
    /\ kind = "do_for_each"
    /\ promise.st = "failed"
    /\ frame = "deleted"
    /\ ncalls >= 2
    /\ ncalls < len

\* the invocations whose future has resolved
Resolved == {log[i].k : i \in Failures \cup Successes}

\* C5: parallel_for_each has invoked func on every element when it returns, also
\* after a failed invocation; its future resolves only after every invocation has
\* resolved, fails iff an invocation failed, with the error of one of them, and is
\* ready at return, with no frame, when every invocation returned a ready future
\* that did not fail.
C5_ParallelForEach ==
    kind = "parallel_for_each" =>
        /\ \A i \in Invocations : log[i].el = log[i].k
        /\ promise # NoFuture =>
            \A el \in 1..len : Cardinality({i \in Invocations : log[i].el = el}) = 1
        /\ available(promise) =>
            /\ Resolved = 1..len
            /\ failed(promise) <=> Failures # {}
            /\ failed(promise) => \E i \in Failures : log[i].k = promise.v
        /\ (promise # NoFuture /\ Failures = {} /\ \A i \in Invocations : log[i].ready = 1) =>
            promise = Value(0) /\ frame = "none"

C5_Witness ==
    /\ kind = "parallel_for_each"
    /\ len >= 3
    /\ failed(promise)
    /\ nrun >= 1
    /\ \E i \in Failures : log[i].k = 1 /\ i = 2

\* C6: repeat invokes the action again only after the previous future resolved
\* with stop_iteration::no; a yes or a failure ends the loop for good; the returned
\* future succeeds only after a yes and fails only with the error of the failed
\* invocation.
C6_Repeat ==
    kind = "repeat" =>
        /\ \A i \in Invocations :
            log[i].k > 1 => ResolvedBefore(log[i].k - 1, stop_iteration_no, i)
        /\ \A i \in Failures :
            EndsLoop(i) /\ Settled(Failed(log[i].k), Failed(log[i].k))
        /\ \A i \in Successes :
            log[i].val = stop_iteration_yes =>
                EndsLoop(i) /\ Settled(Value(0), Value(stop_iteration_yes))
        /\ promise.st = "value" =>
            \E i \in Successes : log[i].val = stop_iteration_yes
        /\ promise.st = "failed" => \E i \in Failures : log[i].k = promise.v

C6_Witness ==
    /\ kind = "repeat"
    /\ promise = Value(0)
    /\ ncalls >= 2
    /\ nrun >= 1

\* C7: do_until evaluates stop_cond right before every invocation of the action
\* and invokes the action only when that evaluation returned false; the returned
\* future succeeds exactly when an evaluation returns true, fails with the error
\* of the first failed invocation, and nothing is called after either.
C7_DoUntil ==
    kind = "do_until" =>
        /\ \A i \in Invocations :
            i > 1 /\ log[i - 1].ev = "stop" /\ log[i - 1].res = 0
        /\ promise.st = "value" <=> StopsTrue # {}
        /\ \A i \in StopsTrue : i = Len(log)
        /\ \A i \in Failures :
            EndsLoop(i) /\ Settled(Failed(log[i].k), Failed(log[i].k))
        /\ (promise.st = "failed" /\ promise.v > 0) =>
            \E i \in Failures : log[i].k = promise.v

C7_Witness ==
    /\ kind = "do_until"
    /\ promise = Value(0)
    /\ ncalls >= 2
    /\ nrun >= 1

\* C8: repeat_until_value resolves with the value of the first engaged optional
\* and does not invoke the action afterwards; it invokes the action again only
\* after a disengaged optional; a failure before any engaged optional fails the
\* returned future with that error.
C8_RepeatUntilValue ==
    kind = "repeat_until_value" =>
        /\ \A i \in Invocations :
            log[i].k > 1 => ResolvedBefore(log[i].k - 1, nullopt, i)
        /\ \A i \in Successes :
            log[i].val # nullopt =>
                EndsLoop(i) /\ Settled(Value(log[i].val), Value(log[i].val))
        /\ \A i \in Failures :
            EndsLoop(i) /\ Settled(Failed(log[i].k), Failed(log[i].k))
        /\ promise.st = "value" =>
            \E i \in Successes : log[i].val # nullopt /\ log[i].val = promise.v
        /\ promise.st = "failed" => \E i \in Failures : log[i].k = promise.v

C8_Witness ==
    /\ kind = "repeat_until_value"
    /\ promise = Value(2)
    /\ ncalls >= 2
    /\ nrun >= 1

====
